---- MODULE Spec2Model ----
(***************************************************************************)
(* Multi-cloud cost optimisation backend (Project2/backend/app/services):  *)
(* CostAnalyzer, DataSourceRegistry, PricingScraper / PriceChangeDetector. *)
(*                                                                         *)
(* Strings whose characters the code inspects (substring tests, lower())   *)
(* are sequences of one-character strings.  Money: cost_usd is a whole     *)
(* number of dollars; every derived amount (potential_savings, totals of   *)
(* savings) is in hundredths of a dollar, so cost * 0.9 is cost * 90.      *)
(* Arithmetic is exact (the code's binary floating point is not modelled). *)
(***************************************************************************)
EXTENDS Integers, Sequences, FiniteSets, TLC

VARIABLES
    records,     \* CostAnalyzer: the batch handed to analyze_costs
    analysis,    \* CostAnalyzer: what analyze_costs returned for it
    sources,     \* DataSourceRegistry.sources: the dict, as name/source pairs in insertion order
    call,        \* DataSourceRegistry: the call in progress or last finished, with its locals
    price_file,  \* the price-history JSON file shared by every PricingScraper
    scrapers,    \* per process: its PricingScraper.historical_prices and where it stands
    detect_log,  \* the last detect_price_changes call: history before, argument, returned changes
    observed,    \* per provider/instance type: the price most recently passed to detect_price_changes
    overwritten  \* what a save wiped from the file although another process had persisted it since this process read

analyzerVars == <<records, analysis>>
registryVars == <<sources, call>>
scraperVars  == <<price_file, scrapers, detect_log, observed, overwritten>>
vars == <<records, analysis, sources, call, price_file, scrapers, detect_log, observed, overwritten>>

----------------------------------------------------------------------------
(* Strings *)

UpperChars == <<"A","B","C","D","E","F","G","H","I","J","K","L","M",
                "N","O","P","Q","R","S","T","U","V","W","X","Y","Z">>
LowerChars == <<"a","b","c","d","e","f","g","h","i","j","k","l","m",
                "n","o","p","q","r","s","t","u","v","w","x","y","z">>

\* str.lower() on one character
lower_char(c) ==
    IF \E i \in 1..26 : UpperChars[i] = c
    THEN LowerChars[CHOOSE i \in 1..26 : UpperChars[i] = c]
    ELSE c

\* str.lower()
lower(s) == [i \in 1..Len(s) |-> lower_char(s[i])]

\* Python's  sub in s  on strings
contains(sub, s) ==
    \E i \in 1..(Len(s) - Len(sub) + 1) : SubSeq(s, i, i + Len(sub) - 1) = sub

DigitChars == <<"0","1","2","3","4","5","6","7","8","9">>

\* str(n) for 0 <= n <= 99
str_int(n) ==
    IF n < 10 THEN <<DigitChars[n + 1]>>
    ELSE <<DigitChars[(n \div 10) + 1], DigitChars[(n % 10) + 1]>>

\* a metric value: a Python str or a Python int
StrVal(s) == [t |-> "str", v |-> s]
IntVal(n) == [t |-> "int", v |-> n]

\* str(v) of a metric value
str_of(v) == IF v.t = "str" THEN v.v ELSE str_int(v.v)

\* truthiness of a metric value
truthy(v) == IF v.t = "str" THEN v.v /= <<>> ELSE v.v /= 0

\* dict.get(key, default)
dict_get(d, k, default) == IF k \in DOMAIN d THEN d[k] ELSE default

----------------------------------------------------------------------------
(* Sequence helpers *)

\* sum(...) over a sequence of integers
sum(s) ==
    LET f[i \in 0..Len(s)] == IF i = 0 THEN 0 ELSE f[i - 1] + s[i]
    IN  f[Len(s)]

\* the distinct elements of ks in order of first occurrence: the iteration
\* order of a dict (defaultdict) filled by walking ks
dict_keys(ks) ==
    LET f[i \in 0..Len(ks)] ==
            IF i = 0 THEN <<>>
            ELSE IF \E j \in 1..(i - 1) : ks[j] = ks[i] THEN f[i - 1]
                 ELSE Append(f[i - 1], ks[i])
    IN  f[Len(ks)]

\* concatenation of a sequence of sequences
flatten(ss) ==
    LET f[i \in 0..Len(ss)] == IF i = 0 THEN <<>> ELSE f[i - 1] \o ss[i]
    IN  f[Len(ss)]

\* the first n elements: s[:n] for n >= 0
take(s, n) == SubSeq(s, 1, IF Len(s) < n THEN Len(s) ELSE n)

costs(rs) == [i \in 1..Len(rs) |-> rs[i].cost_usd]

----------------------------------------------------------------------------
(* CostAnalyzer *)

COLON == <<":">>

\* the literals of cost_analyzer.py
S_cpu         == <<"c","p","u">>
S_utilization == <<"u","t","i","l","i","z","a","t","i","o","n">>
S_attached    == <<"a","t","t","a","c","h","e","d">>
S_spot        == <<"s","p","o","t">>
S_xlarge      == <<"x","l","a","r","g","e">>
S_2xlarge     == <<"2">> \o S_xlarge
S_4xlarge     == <<"4">> \o S_xlarge
S_8xlarge     == <<"8">> \o S_xlarge
LargeSizes    == <<S_xlarge, S_2xlarge, S_4xlarge, S_8xlarge>>

S_aws   == <<"a","w","s">>
S_gcp   == <<"g","c","p">>
S_azure == <<"a","z","u","r","e">>
S_multi == <<"m","u","l","t","i">>

S_vm       == <<"v","m">>
S_storage  == <<"s","t","o","r","a","g","e">>
S_database == <<"d","a","t","a","b","a","s","e">>
S_compute  == <<"c","o","m","p","u","t","e">>

S_m5_xlarge       == <<"m","5",".">> \o S_xlarge
S_m5_2xlarge      == <<"m","5",".">> \o S_2xlarge
S_t3_large        == <<"t","3",".","l","a","r","g","e">>
S_n1_standard_4   == <<"n","1","-","s","t","a","n","d","a","r","d","-","4">>
S_Standard_D4s_v3 == <<"S","t","a","n","d","a","r","d","_","D","4","s","_","v","3">>

TopN == 20

\* has_usage looking at the names of the metrics instead of their values
has_usage_keys(rs) ==
    \E i \in 1..Len(rs) :
        \E k \in DOMAIN rs[i].usage_metrics :
            \/ k \in {"cpu", "cpu_utilization", "utilization"}

\* has_usage of _find_idle_resources
has_usage(rs) ==
    \E i \in 1..Len(rs) :
        \E k \in DOMAIN rs[i].usage_metrics :
            \/ contains(S_cpu, lower(str_of(rs[i].usage_metrics[k])))
            \/ contains(S_utilization, lower(str_of(rs[i].usage_metrics[k])))

_find_idle_resources(recs) ==
    LET with_id == SelectSeq(recs, LAMBDA r : r.resource_id /= <<>>)
        ids     == dict_keys([i \in 1..Len(with_id) |-> with_id[i].resource_id])
        emit(resource_id) ==
            LET resource_records == SelectSeq(recs, LAMBDA r : r.resource_id = resource_id)
                total_cost       == sum(costs(resource_records))
            IN  IF ~has_usage(resource_records) /\ total_cost > 10
                THEN << [type              |-> "idle_resource",
                         resource_id       |-> resource_id,
                         cloud_provider    |-> resource_records[1].cloud_provider,
                         current_cost      |-> total_cost,
                         potential_savings |-> total_cost * 90,
                         recommendation    |-> "Review resource usage. Consider terminating if unused.",
                         priority          |-> IF total_cost > 100 THEN "high" ELSE "medium"] >>
                ELSE <<>>
    IN  flatten([i \in 1..Len(ids) |-> emit(ids[i])])

\* the record's instance_type metric is something .lower() can be called on
instance_type_is_str(r) ==
    "instance_type" \notin DOMAIN r.usage_metrics \/ r.usage_metrics["instance_type"].t = "str"

_find_over_provisioned(recs) ==
    LET emit(record) ==
            IF record.resource_type = S_vm /\ record.cost_usd > 50
            THEN LET instance_type == dict_get(record.usage_metrics, "instance_type", StrVal(<<>>))
                 IN  IF \E k \in 1..Len(LargeSizes) : contains(LargeSizes[k], lower(instance_type.v))
                     THEN << [type              |-> "over_provisioned",
                              resource_id       |-> record.resource_id,
                              cloud_provider    |-> record.cloud_provider,
                              current_cost      |-> record.cost_usd,
                              potential_savings |-> record.cost_usd * 30,
                              recommendation    |-> "Consider downsizing to smaller instance type",
                              priority          |-> "medium"] >>
                     ELSE <<>>
            ELSE <<>>
    IN  flatten([i \in 1..Len(recs) |-> emit(recs[i])])

\* _find_unattached_storage looking for 'attached' in the id as written
_find_unattached_storage_as_written(recs) ==
    LET emit(record) ==
            IF record.resource_type = S_storage /\ record.cost_usd > 5
            THEN LET is_attached == \/ DOMAIN record.tags /= {}
                                    \/ contains(S_attached, record.resource_id)
                 IN  IF ~is_attached
                     THEN << [type              |-> "unattached_storage",
                              resource_id       |-> record.resource_id,
                              cloud_provider    |-> record.cloud_provider,
                              current_cost      |-> record.cost_usd,
                              potential_savings |-> record.cost_usd * 100,
                              recommendation    |-> "Delete unattached storage volume",
                              priority          |-> "medium"] >>
                     ELSE <<>>
            ELSE <<>>
    IN  flatten([i \in 1..Len(recs) |-> emit(recs[i])])

_find_unattached_storage(recs) ==
    LET emit(record) ==
            IF record.resource_type = S_storage /\ record.cost_usd > 5
            THEN LET is_attached == \/ DOMAIN record.tags /= {}
                                    \/ contains(S_attached, lower(record.resource_id))
                 IN  IF ~is_attached
                     THEN << [type              |-> "unattached_storage",
                              resource_id       |-> record.resource_id,
                              cloud_provider    |-> record.cloud_provider,
                              current_cost      |-> record.cost_usd,
                              potential_savings |-> record.cost_usd * 100,
                              recommendation    |-> "Delete unattached storage volume",
                              priority          |-> "medium"] >>
                     ELSE <<>>
            ELSE <<>>
    IN  flatten([i \in 1..Len(recs) |-> emit(recs[i])])

_find_reserved_instance_opportunities(recs) ==
    LET vms == SelectSeq(recs, LAMBDA r : r.resource_type = S_vm)
        key_of(r) == r.cloud_provider \o COLON
                     \o str_of(dict_get(r.usage_metrics, "instance_type", StrVal(<<>>)))
                     \o COLON \o r.region
        keys == dict_keys([i \in 1..Len(vms) |-> key_of(vms[i])])
        emit(key) ==
            LET instance_records == SelectSeq(vms, LAMBDA r : key_of(r) = key)
                total_cost       == sum(costs(instance_records))
            IN  IF total_cost > 100 /\ Len(instance_records) > 20
                THEN << [type              |-> "reserved_instance",
                         resource_id       |-> key,
                         cloud_provider    |-> instance_records[1].cloud_provider,
                         current_cost      |-> total_cost,
                         potential_savings |-> total_cost * 40,
                         recommendation    |-> "Consider purchasing reserved instances for consistent workloads",
                         priority          |-> IF total_cost > 500 THEN "high" ELSE "medium"] >>
                ELSE <<>>
    IN  flatten([i \in 1..Len(keys) |-> emit(keys[i])])

\* max(items, key=cost) / min(items, key=cost): the first extremal item in
\* iteration order
first_max(cs) == CHOOSE i \in 1..Len(cs) :
                    /\ \A j \in 1..Len(cs) : cs[j] <= cs[i]
                    /\ \A j \in 1..(i - 1) : cs[j] < cs[i]
first_min(cs) == CHOOSE i \in 1..Len(cs) :
                    /\ \A j \in 1..Len(cs) : cs[j] >= cs[i]
                    /\ \A j \in 1..(i - 1) : cs[j] > cs[i]

\* _find_region_optimizations firing at a difference of exactly 20% too
_find_region_optimizations_inclusive(recs) ==
    LET key_of(r) == r.service_category \o COLON \o r.resource_type
        keys == dict_keys([i \in 1..Len(recs) |-> key_of(recs[i])])
        emit(service_key) ==
            LET members == SelectSeq(recs, LAMBDA r : key_of(r) = service_key)
                regions == dict_keys([i \in 1..Len(members) |-> members[i].region])
                region_costs == [k \in 1..Len(regions) |->
                                    sum(costs(SelectSeq(members, LAMBDA r : r.region = regions[k])))]
                mx == first_max(region_costs)
                mn == first_min(region_costs)
            IN  IF Len(regions) < 2 THEN <<>>
                ELSE IF region_costs[mx] * 10 >= region_costs[mn] * 12
                THEN << [type              |-> "region_optimization",
                         resource_id       |-> service_key,
                         cloud_provider    |-> S_multi,
                         current_cost      |-> region_costs[mx],
                         potential_savings |-> (region_costs[mx] - region_costs[mn]) * 80,
                         recommendation    |-> "Consider migrating to the cheapest region",
                         priority          |-> "low"] >>
                ELSE <<>>
    IN  flatten([i \in 1..Len(keys) |-> emit(keys[i])])

_find_region_optimizations(recs) ==
    LET key_of(r) == r.service_category \o COLON \o r.resource_type
        keys == dict_keys([i \in 1..Len(recs) |-> key_of(recs[i])])
        emit(service_key) ==
            LET members == SelectSeq(recs, LAMBDA r : key_of(r) = service_key)
                regions == dict_keys([i \in 1..Len(members) |-> members[i].region])
                region_costs == [k \in 1..Len(regions) |->
                                    sum(costs(SelectSeq(members, LAMBDA r : r.region = regions[k])))]
                mx == first_max(region_costs)
                mn == first_min(region_costs)
            IN  IF Len(regions) < 2 THEN <<>>
                ELSE IF region_costs[mx] * 10 > region_costs[mn] * 12
                THEN << [type              |-> "region_optimization",
                         resource_id       |-> service_key,
                         cloud_provider    |-> S_multi,
                         current_cost      |-> region_costs[mx],
                         potential_savings |-> (region_costs[mx] - region_costs[mn]) * 80,
                         recommendation    |-> "Consider migrating to the cheapest region",
                         priority          |-> "low"] >>
                ELSE <<>>
    IN  flatten([i \in 1..Len(keys) |-> emit(keys[i])])

\* price_reductions of _find_price_change_opportunities, in the dict's order
price_reductions ==
    << [key |-> S_aws \o COLON \o S_m5_xlarge,          reduction_pct |-> 15],
       [key |-> S_aws \o COLON \o S_t3_large,           reduction_pct |-> 10],
       [key |-> S_gcp \o COLON \o S_n1_standard_4,      reduction_pct |-> 20],
       [key |-> S_azure \o COLON \o S_Standard_D4s_v3,  reduction_pct |-> 12] >>

\* key in price_reductions
in_price_reductions(k) == \E e \in 1..Len(price_reductions) : price_reductions[e].key = k

\* price_reductions[key]
price_reduction_of(k) ==
    price_reductions[CHOOSE e \in 1..Len(price_reductions) : price_reductions[e].key = k]

\* key.split(':', 1)[0]
before_colon(k) ==
    IF \E i \in 1..Len(k) : k[i] = ":"
    THEN SubSeq(k, 1, (CHOOSE i \in 1..Len(k) : k[i] = ":" /\ \A j \in 1..(i - 1) : k[j] /= ":") - 1)
    ELSE k

_find_price_change_opportunities(recs) ==
    LET has_type(r) == /\ r.resource_type = S_vm
                       /\ "instance_type" \in DOMAIN r.usage_metrics
                       /\ truthy(r.usage_metrics["instance_type"])
        typed == SelectSeq(recs, has_type)
        key_of(r) == r.cloud_provider \o COLON \o str_of(r.usage_metrics["instance_type"])
        keys == dict_keys([i \in 1..Len(typed) |-> key_of(typed[i])])
        emit_reduction(key) ==
            IF in_price_reductions(lower(key))
            THEN LET reduction_info    == price_reduction_of(lower(key))
                     records_list      == SelectSeq(typed, LAMBDA r : key_of(r) = key)
                     total_cost        == sum(costs(records_list))
                     potential_savings == total_cost * reduction_info.reduction_pct
                 IN  IF potential_savings > 50 * 100
                     THEN << [type                |-> "price_change_opportunity",
                              resource_id         |-> key,
                              cloud_provider      |-> before_colon(key),
                              current_cost        |-> total_cost,
                              potential_savings   |-> potential_savings,
                              price_reduction_pct |-> reduction_info.reduction_pct,
                              recommendation      |-> "Take advantage of the discount program",
                              priority            |-> IF potential_savings > 200 * 100
                                                      THEN "high" ELSE "medium",
                              action_required     |-> "Switch to discounted pricing or enroll in discount program"] >>
                     ELSE <<>>
            ELSE <<>>
        emit_spot(record) ==
            IF record.resource_type = S_vm /\ record.cost_usd > 100
            THEN LET instance_type == dict_get(record.usage_metrics, "instance_type", StrVal(<<>>))
                     spot_savings  == record.cost_usd * 70
                 IN  IF /\ ~contains(S_spot, lower(record.resource_id))
                        /\ ~contains(S_spot, lower(str_of(instance_type)))
                        /\ spot_savings > 50 * 100
                     THEN << [type                |-> "spot_instance_opportunity",
                              resource_id         |-> record.resource_id,
                              cloud_provider      |-> record.cloud_provider,
                              current_cost        |-> record.cost_usd,
                              potential_savings   |-> spot_savings,
                              price_reduction_pct |-> 70,
                              recommendation      |-> "Consider switching to spot instances for fault-tolerant workloads. Save up to 70%",
                              priority            |-> "medium",
                              action_required     |-> "Evaluate workload fault tolerance and migrate to spot instances"] >>
                     ELSE <<>>
            ELSE <<>>
    IN  flatten([i \in 1..Len(keys) |-> emit_reduction(keys[i])])
        \o flatten([i \in 1..Len(recs) |-> emit_spot(recs[i])])

\* sort_insert with a tie placed before its equals (an unstable sort)
sort_insert_unstable(sorted, x) ==
    LET n == Cardinality({j \in 1..Len(sorted) : sorted[j].potential_savings > x.potential_savings})
    IN  SubSeq(sorted, 1, n) \o <<x>> \o SubSeq(sorted, n + 1, Len(sorted))

\* list.sort(key=potential_savings, reverse=True): the element is placed
\* after every element of the sorted prefix whose key is >= its own
sort_insert(sorted, x) ==
    LET n == Cardinality({j \in 1..Len(sorted) : sorted[j].potential_savings >= x.potential_savings})
    IN  SubSeq(sorted, 1, n) \o <<x>> \o SubSeq(sorted, n + 1, Len(sorted))

sort_by_savings_desc(opps) ==
    LET f[i \in 0..Len(opps)] == IF i = 0 THEN <<>> ELSE sort_insert(f[i - 1], opps[i])
    IN  f[Len(opps)]

_summarize_by_category(recs) ==
    LET cats == dict_keys([i \in 1..Len(recs) |-> recs[i].service_category])
    IN  [k \in 1..Len(cats) |->
            [category |-> cats[k],
             cost     |-> sum(costs(SelectSeq(recs, LAMBDA r : r.service_category = cats[k])))]]

summarize_by_provider(recs) ==
    LET provs == dict_keys([i \in 1..Len(recs) |-> recs[i].cloud_provider])
    IN  [k \in 1..Len(provs) |->
            [provider |-> provs[k],
             cost     |-> sum(costs(SelectSeq(recs, LAMBDA r : r.cloud_provider = provs[k])))]]

\* the six heuristics' outputs, extended into one list in call order
collect_opportunities(recs) ==
    _find_idle_resources(recs)
    \o _find_over_provisioned(recs)
    \o _find_unattached_storage(recs)
    \o _find_reserved_instance_opportunities(recs)
    \o _find_region_optimizations(recs)
    \o _find_price_change_opportunities(recs)

\* savings_percentage as an exact fraction num/den (0 is 0/1).  With savings
\* in hundredths of a dollar, savings / total_cost * 100 is savings_h / total_cost.
savings_percentage_of(total_potential_savings, total_cost) ==
    IF total_cost > 0
    THEN [num |-> total_potential_savings, den |-> total_cost]
    ELSE [num |-> 0, den |-> 1]

\* _find_over_provisioned calls instance_type.lower(): AttributeError when a
\* vm record above the floor carries an instance_type that is not a str
over_provisioned_raises(recs) ==
    \E i \in 1..Len(recs) :
        /\ recs[i].resource_type = S_vm
        /\ recs[i].cost_usd > 50
        /\ ~instance_type_is_str(recs[i])

\* status "returned" with the returned dict, or status "raised"
analyze_costs(recs) ==
    IF recs = <<>>
    THEN [status |-> "returned",
          result |-> [total_cost    |-> 0,
                      opportunities |-> <<>>,
                      summary       |-> <<>>]]
    ELSE IF over_provisioned_raises(recs)
    THEN [status |-> "raised"]
    ELSE LET total_cost              == sum(costs(recs))
             opportunities           == sort_by_savings_desc(collect_opportunities(recs))
             total_potential_savings ==
                 sum([i \in 1..Len(opportunities) |-> opportunities[i].potential_savings])
         IN  [status |-> "returned",
              result |->
                 [total_cost              |-> total_cost,
                  total_potential_savings |-> total_potential_savings,
                  savings_percentage      |-> savings_percentage_of(total_potential_savings, total_cost),
                  opportunities           |-> take(opportunities, TopN),
                  summary                 |-> [by_provider     |-> summarize_by_provider(recs),
                                               by_category     |-> _summarize_by_category(recs),
                                               total_resources |-> Len(recs)]]]

----------------------------------------------------------------------------
(* Price history *)

Procs == {1, 2}      \* the processes that own a PricingScraper on the same file

EmptyMap == [k \in {} |-> 0]

\* the dict {} : no "<provider>_prices", no "<provider>_prices_last_updated",
\* no "simulated_reductions" (the timestamps' values are not modelled, only
\* which providers have one)
EmptyHistory == [prices |-> EmptyMap, last_updated |-> {}, simulated_reductions |-> EmptyMap]

\* PricingScraper._load_price_history
_load_price_history(f) == IF f.state = "json" THEN f.data ELSE EmptyHistory

\* every process has constructed its PricingScraper over the history file f
ScraperStartedOn(f) ==
    /\ price_file = f
    /\ scrapers = [p \in Procs |->
                      [historical_prices |-> _load_price_history(f),
                       pc |-> "idle", simulations |-> 0]]
    /\ detect_log = [called |-> FALSE]
    /\ observed = EmptyMap
    /\ overwritten = {}

\* no history file yet
ScraperAtStart == ScraperStartedOn([state |-> "absent"])

----------------------------------------------------------------------------
(* CostAnalyzer: the batches analysed *)

MaxRecords == 3     \* records chosen one by one
BulkRun    == 21    \* length of the run of like records appended at once

S_us_east_1 == <<"u","s","-","e","a","s","t","-","1">>
S_us_west_2 == <<"u","s","-","w","e","s","t","-","2">>
S_AWS       == <<"A","W","S">>
S_note      == <<"C","P","U"," ","u","t","i","l","i","z","a","t","i","o","n"," ","l","o","w">>

UnifiedCostRecord(resource_id, cloud_provider, service_category, resource_type, region, cost_usd, usage_metrics, tags) ==
    [resource_id      |-> resource_id,
     cloud_provider   |-> cloud_provider,
     service_category |-> service_category,
     resource_type    |-> resource_type,
     region           |-> region,
     cost_usd         |-> cost_usd,
     usage_metrics    |-> usage_metrics,
     tags             |-> tags]

NoTags == [k \in {} |-> <<>>]
NoMetrics == [k \in {} |-> StrVal(<<>>)]

\* the records a batch may hold at position k; ids ending in k are unique to
\* the position, the others are shared between positions
RecordPool(k) ==
    { UnifiedCostRecord(<<"i","-">> \o str_int(k), S_aws, S_compute, S_vm, S_us_east_1, 120,
                        [instance_type |-> StrVal(S_m5_2xlarge)], NoTags),
      UnifiedCostRecord(<<"i","-">> \o str_int(k), S_aws, S_compute, S_vm, S_us_west_2, 400,
                        [instance_type |-> StrVal(S_m5_xlarge)], NoTags),
      UnifiedCostRecord(<<"v","o","l","-">> \o str_int(k), S_aws, S_storage, S_storage, S_us_east_1, 50,
                        NoMetrics, NoTags),
      UnifiedCostRecord(<<"v","o","l","-","A","t","t","a","c","h","e","d">>, S_gcp, S_storage, S_storage,
                        S_us_west_2, 40, NoMetrics, NoTags),
      UnifiedCostRecord(<<"v","m","-","c","p","u">>, S_AWS, S_compute, S_vm, S_us_east_1, 600,
                        [instance_type |-> StrVal(S_t3_large), note |-> StrVal(S_note)], NoTags),
      UnifiedCostRecord(<<"v","m","-","d","4">>, S_azure, S_compute, S_vm, S_us_west_2, 500,
                        [instance_type |-> StrVal(S_Standard_D4s_v3)], [env |-> <<"p","r","o","d">>]),
      UnifiedCostRecord(<<"d","b","-">> \o str_int(k), S_gcp, S_database, S_database, S_us_east_1, 0,
                        NoMetrics, NoTags),
      UnifiedCostRecord(<<"i","-","n">>, S_aws, S_compute, S_vm, S_us_east_1, 60,
                        [instance_type |-> IntVal(4)], NoTags) }

\* a like record of a long-running fleet: one resource billed BulkRun times
BulkRecord ==
    UnifiedCostRecord(<<"i","-","f","l","e","e","t">>, S_aws, S_compute, S_vm, S_us_east_1, 60,
                      [instance_type |-> StrVal(S_m5_xlarge)], NoTags)

InitAnalyzer ==
    /\ records = <<>>
    /\ analysis = [status |-> "none"]
    /\ sources = <<>>
    /\ call = [op |-> "none", pc |-> "idle"]
    /\ ScraperAtStart

\* the caller appends one record to the batch it will analyse
AddRecord ==
    /\ analysis.status = "none"
    /\ Len(records) < MaxRecords
    /\ \E r \in RecordPool(Len(records) + 1) : records' = Append(records, r)
    /\ UNCHANGED <<analysis, registryVars, scraperVars>>

\* the caller appends BulkRun like records
AddBulk ==
    /\ analysis.status = "none"
    /\ Len(records) <= MaxRecords
    /\ records' = records \o [i \in 1..BulkRun |-> BulkRecord]
    /\ UNCHANGED <<analysis, registryVars, scraperVars>>

\* CostAnalyzer.analyze_costs(records)
Analyze ==
    /\ analysis.status = "none"
    /\ analysis' = analyze_costs(records)
    /\ UNCHANGED <<records, registryVars, scraperVars>>

NextAnalyzer == AddRecord \/ AddBulk \/ Analyze

SpecAnalyzer == InitAnalyzer /\ [][NextAnalyzer]_vars

----------------------------------------------------------------------------
(* CostAnalyzer: properties *)

savings_of(opps) == [i \in 1..Len(opps) |-> opps[i].potential_savings]

\* C1: the total_potential_savings that analyze_costs returns equals the sum
\* of potential_savings over the (at most 20) opportunities it returns.
C1_TotalIsSumOfReturned ==
    (analysis.status = "returned" /\ "total_potential_savings" \in DOMAIN analysis.result) =>
        analysis.result.total_potential_savings = sum(savings_of(analysis.result.opportunities))

\* C2: whenever total_cost is 0 (the empty batch included) the result carries
\* savings_percentage and it is 0.
C2_ZeroPercentageAtZeroCost ==
    (analysis.status = "returned" /\ analysis.result.total_cost = 0) =>
        /\ "savings_percentage" \in DOMAIN analysis.result
        /\ analysis.result.savings_percentage.num = 0

\* the heuristics' outputs in the order idle, over-provisioned, unattached
\* storage, reserved instance, region, price-change/spot
EmittedInOrder ==
    _find_idle_resources(records)
    \o _find_over_provisioned(records)
    \o _find_unattached_storage(records)
    \o _find_reserved_instance_opportunities(records)
    \o _find_region_optimizations(records)
    \o _find_price_change_opportunities(records)

\* the place of c[i] after a stable sort by potential_savings descending:
\* behind every element with more savings and every earlier element with the same
StableRank(c, i) ==
    1 + Cardinality({j \in 1..Len(c) : c[j].potential_savings > c[i].potential_savings})
      + Cardinality({j \in 1..(i - 1) : c[j].potential_savings = c[i].potential_savings})

\* C3: the returned opportunities are the first 20 of the heuristics' outputs
\* (in emission order) after a stable sort by potential_savings descending: at
\* most 20, non-increasing, ties in emission order.
C3_TopTwentyStableSorted ==
    analysis.status = "returned" =>
        LET c    == EmittedInOrder
            opps == analysis.result.opportunities
        IN  /\ Len(opps) <= 20
            /\ Len(opps) = (IF Len(c) < 20 THEN Len(c) ELSE 20)
            /\ \A i \in 1..(Len(opps) - 1) :
                   opps[i].potential_savings >= opps[i + 1].potential_savings
            /\ \A i \in 1..Len(c) :
                   StableRank(c, i) <= 20 => opps[StableRank(c, i)] = c[i]

\* C3 witness: more than 20 opportunities were emitted, 20 were returned, and
\* two returned opportunities of different heuristics tie
C3_Witness ==
    /\ analysis.status = "returned"
    /\ Len(EmittedInOrder) > 20
    /\ Len(analysis.result.opportunities) = 20
    /\ \E i, j \in 1..20 :
           /\ i < j
           /\ analysis.result.opportunities[i].potential_savings
                  = analysis.result.opportunities[j].potential_savings
           /\ analysis.result.opportunities[i].type /= analysis.result.opportunities[j].type

----------------------------------------------------------------------------
(* DataSource variants *)

DictVal(pairs) == [t |-> "dict", v |-> pairs]
ListVal(items) == [t |-> "list", v |-> items]

\* == on two values (a value never equals one of another type)
val_eq(a, b) == a.t = b.t /\ a.v = b.v

\* ", ".join(parts)
join_comma(parts) ==
    LET f[i \in 0..Len(parts)] ==
            IF i = 0 THEN <<>>
            ELSE IF i = 1 THEN parts[1]
            ELSE f[i - 1] \o <<",", " ">> \o parts[i]
    IN  f[Len(parts)]

RECURSIVE py_repr(_)
\* str(v) of a value inside a container: repr of str, int and dict
\* (characters that repr would escape do not occur in the model's strings)
py_repr(v) ==
    CASE v.t = "str"  -> <<"'">> \o v.v \o <<"'">>
      [] v.t = "int"  -> str_int(v.v)
      [] v.t = "dict" ->
            <<"{">>
            \o join_comma([i \in 1..Len(v.v) |->
                              <<"'">> \o v.v[i].k \o <<"'">> \o <<":", " ">> \o py_repr(v.v[i].v)])
            \o <<"}">>
      [] v.t = "list" ->
            <<"[">> \o join_comma([i \in 1..Len(v.v) |-> py_repr(v.v[i])]) \o <<"]">>

\* a dict as key/value pairs in insertion order
pairs_get(pairs, k) == pairs[CHOOSE i \in 1..Len(pairs) : pairs[i].k = k].v
pairs_has(pairs, k) == \E i \in 1..Len(pairs) : pairs[i].k = k

MaxLimit == 10000
DefaultLimit == 100

Raise(error) == [kind |-> "raise", error |-> error]
Return(rows) == [kind |-> "return", rows |-> rows]
AwaitIO      == [kind |-> "io"]

\* DataFrame.head(n): the first n rows; for negative n all rows but the last -n
df_head(df, n) ==
    IF n >= 0 THEN take(df, n)
    ELSE take(df, IF Len(df) + n > 0 THEN Len(df) + n ELSE 0)

\* DataFrame.sort_values(col, ascending=asc) on integer columns: insertion
\* into the sorted prefix behind the rows that do not come after the new row
df_sort_values(df, col, asc) ==
    LET before(a, b) == IF asc THEN a[col].v <= b[col].v ELSE a[col].v >= b[col].v
        ins(sorted, x) ==
            LET n == Cardinality({j \in 1..Len(sorted) : before(sorted[j], x)})
            IN  SubSeq(sorted, 1, n) \o <<x>> \o SubSeq(sorted, n + 1, Len(sorted))
        f[i \in 0..Len(df)] == IF i = 0 THEN <<>> ELSE ins(f[i - 1], df[i])
    IN  f[Len(df)]

S_date == <<"d","a","t","e">>

CSVDataSource_validate_query(query_params) ==
    ~("limit" \in DOMAIN query_params /\ query_params["limit"] > MaxLimit)

\* CSVDataSource.query on a source [type, columns, df]
CSVDataSource_query(src, query_params) ==
    IF ~CSVDataSource_validate_query(query_params) THEN Raise("ValueError: Query validation failed")
    ELSE
    LET flt == IF "filter" \in DOMAIN query_params THEN query_params["filter"] ELSE <<>>
        keep(row) == \A i \in 1..Len(flt) :
                        flt[i].k \in src.columns => val_eq(row[flt[i].k], flt[i].v)
        df1 == SelectSeq(src.df, keep)
        date_col == dict_get(query_params, "date_column", S_date)
        in_range(row) == /\ row[date_col].v >= query_params["date_from"]
                         /\ row[date_col].v <= query_params["date_to"]
        df2 == IF /\ "date_from" \in DOMAIN query_params
                  /\ "date_to" \in DOMAIN query_params
                  /\ date_col \in src.columns
               THEN SelectSeq(df1, in_range) ELSE df1
        df3 == IF "sort" \in DOMAIN query_params
               THEN LET sort_col  == dict_get(query_params["sort"], "column", <<>>)
                        ascending == dict_get(query_params["sort"], "ascending", TRUE)
                    IN  IF sort_col /= <<>> /\ sort_col \in src.columns
                        THEN df_sort_values(df2, sort_col, ascending) ELSE df2
               ELSE df2
        limit == dict_get(query_params, "limit", DefaultLimit)
    IN  Return(df_head(df3, limit))

S_where    == <<"$","w","h","e","r","e">>
S_eval     == <<"$","e","v","a","l">>
S_function == <<"$","f","u","n","c","t","i","o","n">>
dangerous_ops == <<S_where, S_eval, S_function>>

\* validate_query looking at the top-level keys of the filter only
MongoDBDataSource_validate_query_shallow(query_params) ==
    /\ ~( /\ "filter" \in DOMAIN query_params
          /\ \E k \in 1..Len(dangerous_ops), i \in 1..Len(query_params["filter"]) :
                 query_params["filter"][i].k = dangerous_ops[k] )
    /\ ~("limit" \in DOMAIN query_params /\ query_params["limit"] > MaxLimit)

\* str(query_params['filter']) holds none of the dangerous operators, and the
\* limit is at most 10000
MongoDBDataSource_validate_query(query_params) ==
    /\ ~( /\ "filter" \in DOMAIN query_params
          /\ \E k \in 1..Len(dangerous_ops) :
                 contains(dangerous_ops[k], py_repr(DictVal(query_params["filter"]))) )
    /\ ~("limit" \in DOMAIN query_params /\ query_params["limit"] > MaxLimit)

\* MongoDBDataSource.query up to collection.find: raises, or waits for the server
MongoDBDataSource_query(src, query_params) ==
    IF ~MongoDBDataSource_validate_query(query_params)
    THEN Raise("ValueError: Query validation failed: Unsafe operation detected")
    ELSE AwaitIO

S__id == <<"_","i","d">>

\* what MongoDBDataSource.query returns once the server has answered: the
\* documents matching the filter's field equalities, at most limit of them
\* (limit 0 is no limit), each with its _id turned into a str
MongoDBDataSource_results(src, query_params) ==
    LET flt == dict_get(query_params, "filter", <<>>)
        matches(doc) == \A i \in 1..Len(flt) :
                            flt[i].k \in DOMAIN doc /\ val_eq(doc[flt[i].k], flt[i].v)
        found == SelectSeq(src.docs, matches)
        limit == dict_get(query_params, "limit", DefaultLimit)
        batch == IF limit = 0 THEN found
                 ELSE take(found, IF limit < 0 THEN 0 - limit ELSE limit)
    IN  [i \in 1..Len(batch) |->
            [f \in DOMAIN batch[i] |->
                IF f = S__id THEN StrVal(str_of(batch[i][f])) ELSE batch[i][f]]]

\* source.query(query_params), dispatched on the registered object's class
source_query(src, query_params) ==
    IF src.type = "csv" THEN CSVDataSource_query(src, query_params)
    ELSE MongoDBDataSource_query(src, query_params)

----------------------------------------------------------------------------
(* DataSourceRegistry *)

registered(srcs, name) == \E i \in 1..Len(srcs) : srcs[i].name = name

\* list(self.sources.keys())
source_names(srcs) == [i \in 1..Len(srcs) |-> srcs[i].name]

\* DataSourceRegistry.get_source: the source, or None
get_source(srcs, name) ==
    IF registered(srcs, name)
    THEN [found |-> TRUE, source |-> srcs[CHOOSE i \in 1..Len(srcs) : srcs[i].name = name].source]
    ELSE [found |-> FALSE]

\* self.sources[name] = source
register(srcs, name, source) ==
    IF registered(srcs, name)
    THEN [i \in 1..Len(srcs) |->
            IF srcs[i].name = name THEN [name |-> name, source |-> source] ELSE srcs[i]]
    ELSE Append(srcs, [name |-> name, source |-> source])

\* query_source answering an unknown name with no rows instead of raising
query_source_lenient(srcs, source_name, query_params) ==
    LET source == get_source(srcs, source_name)
    IN  IF ~source.found THEN Return(<<>>)
        ELSE source_query(source.source, query_params)

\* DataSourceRegistry.query_source
query_source(srcs, source_name, query_params) ==
    LET source == get_source(srcs, source_name)
    IN  IF ~source.found THEN Raise("ValueError: Data source not found")
        ELSE source_query(source.source, query_params)

\* the try/except of query_all_sources dropping a failed source's entry
record_result_dropping(c, name, outcome) ==
    IF outcome.kind = "return"
    THEN [c EXCEPT !.results = Append(@, [name |-> name, rows |-> outcome.rows]),
                   !.i = @ + 1, !.pc = "loop"]
    ELSE [c EXCEPT !.logged = Append(@, name), !.i = @ + 1, !.pc = "loop"]

\* the try/except of query_all_sources, once the query of sources[i] has
\* returned or raised: results[name] = rows, or log the error and results[name] = []
record_result(c, name, outcome) ==
    IF outcome.kind = "return"
    THEN [c EXCEPT !.results = Append(@, [name |-> name, rows |-> outcome.rows]),
                   !.i = @ + 1, !.pc = "loop"]
    ELSE [c EXCEPT !.results = Append(@, [name |-> name, rows |-> <<>>]),
                   !.logged = Append(@, name),
                   !.i = @ + 1, !.pc = "loop"]

----------------------------------------------------------------------------
(* DataSourceRegistry: the sources registered and the calls made *)

MaxSources == 2     \* sources registered at most

S_service == <<"s","e","r","v","i","c","e">>
S_cost    == <<"c","o","s","t">>
S_EC2     == <<"E","C","2">>
S_S3      == <<"S","3">>

SourceNames == {"aws", "gcp", "db"}

CsvRow(date, service, cost) ==
    (S_date :> IntVal(date)) @@ (S_service :> StrVal(service)) @@ (S_cost :> IntVal(cost))

MongoDoc(id, service, cost) ==
    (S__id :> IntVal(id)) @@ (S_service :> StrVal(service)) @@ (S_cost :> IntVal(cost))

\* the data sources that get registered: two billing files and one collection
SourcePool ==
    { [type |-> "csv", columns |-> {S_date, S_service, S_cost},
       df |-> <<CsvRow(1, S_EC2, 10), CsvRow(2, S_S3, 5), CsvRow(3, S_EC2, 20)>>],
      [type |-> "csv", columns |-> {S_date, S_service, S_cost},
       df |-> <<CsvRow(2, S_S3, 7)>>],
      [type |-> "mongodb",
       docs |-> <<MongoDoc(1, S_EC2, 30), MongoDoc(2, S_S3, 8)>>] }

NoParams == [k \in {} |-> 0]

\* the query_params passed by callers
QueryParamsPool ==
    { NoParams,
      [limit |-> 1],
      [limit |-> MaxLimit + 1],
      [filter |-> << [k |-> S_service, v |-> StrVal(S_EC2)] >>],
      [filter |-> << [k |-> S_where, v |-> StrVal(<<"1">>)] >>],
      [date_from |-> 2, date_to |-> 3] }

InitRegistry ==
    /\ sources = <<>>
    /\ call = [op |-> "none", pc |-> "idle"]
    /\ records = <<>>
    /\ analysis = [status |-> "none"]
    /\ ScraperAtStart

\* the registry is used from one thread: a call starts when none is running
no_call_running == call.pc \notin {"loop", "waiting"}

\* DataSourceRegistry.register(name, source)
Register ==
    /\ no_call_running
    /\ \E name \in SourceNames, source \in SourcePool :
        /\ registered(sources, name) \/ Len(sources) < MaxSources
        /\ sources' = register(sources, name, source)
        /\ call' = [op |-> "register", pc |-> "returned", name |-> name]
    /\ UNCHANGED <<analyzerVars, scraperVars>>

\* DataSourceRegistry.query_source(source_name, query_params), up to its
\* return, its raise, or the point where it waits for the database
QuerySource ==
    /\ no_call_running
    /\ \E source_name \in SourceNames, query_params \in QueryParamsPool :
        LET outcome == query_source(sources, source_name, query_params)
            c == [op |-> "query_source", source_name |-> source_name,
                  query_params |-> query_params, sources_before |-> sources]
        IN  call' = CASE outcome.kind = "raise"  -> c @@ [pc |-> "raised", error |-> outcome.error]
                      [] outcome.kind = "return" -> c @@ [pc |-> "returned", ret |-> outcome.rows]
                      [] outcome.kind = "io"     -> c @@ [pc |-> "waiting"]
    /\ UNCHANGED <<sources, analyzerVars, scraperVars>>

\* DataSourceRegistry.query_all_sources(query_params): results = {}
QueryAllSources ==
    /\ no_call_running
    /\ \E query_params \in QueryParamsPool :
        call' = [op |-> "query_all_sources", pc |-> "loop", query_params |-> query_params,
                 sources_before |-> sources, i |-> 1, results |-> <<>>, logged |-> <<>>]
    /\ UNCHANGED <<sources, analyzerVars, scraperVars>>

\* one iteration of  for name in self.sources.keys()  up to the end of its
\* try/except or to the point where the query waits for the database; after
\* the last iteration, return results
QueryAllStep ==
    /\ call.op = "query_all_sources"
    /\ call.pc = "loop"
    /\ IF call.i > Len(sources)
       THEN call' = [call EXCEPT !.pc = "returned"]
       ELSE LET name    == sources[call.i].name
                outcome == query_source(sources, name, call.query_params)
            IN  IF outcome.kind = "io"
                THEN call' = [call EXCEPT !.pc = "waiting"]
                ELSE call' = record_result(call, name, outcome)
    /\ UNCHANGED <<sources, analyzerVars, scraperVars>>

\* the source the running call is waiting on
awaited_name == IF call.op = "query_source" THEN call.source_name ELSE sources[call.i].name

\* the database answers the pending find: the query returns its rows
Respond ==
    /\ call.pc = "waiting"
    /\ LET rows == MongoDBDataSource_results(get_source(sources, awaited_name).source,
                                             call.query_params)
       IN  IF call.op = "query_source"
           THEN call' = [pc |-> "returned", ret |-> rows] @@ call
           ELSE call' = record_result(call, awaited_name, Return(rows))
    /\ UNCHANGED <<sources, analyzerVars, scraperVars>>

\* the pending find fails (connection lost, server error): the query raises
RespondError ==
    /\ call.pc = "waiting"
    /\ IF call.op = "query_source"
       THEN call' = [pc |-> "raised", error |-> "PyMongoError"] @@ call
       ELSE call' = record_result(call, awaited_name, Raise("PyMongoError"))
    /\ UNCHANGED <<sources, analyzerVars, scraperVars>>

NextRegistry ==
    \/ Register
    \/ QuerySource
    \/ QueryAllSources
    \/ QueryAllStep
    \/ Respond
    \/ RespondError

SpecRegistry == InitRegistry /\ [][NextRegistry]_vars

\* the interpreter keeps running the loop of query_all_sources; nothing makes
\* the database answer
FairSpecRegistry == SpecRegistry /\ WF_vars(QueryAllStep)

----------------------------------------------------------------------------
(* DataSourceRegistry: properties *)

\* C4: query_source on a name that is not registered raises the not-found
\* error, returns no list, and leaves the name-to-source mapping as it was.
C4_UnregisteredNameRaisesNotFound ==
    (call.op = "query_source" /\ ~registered(call.sources_before, call.source_name)) =>
        /\ call.pc = "raised"
        /\ call.error = "ValueError: Data source not found"
        /\ "ret" \notin DOMAIN call
        /\ sources = call.sources_before

\* C4 witness: with a source registered, a query for another name has raised
C4_Witness ==
    /\ call.op = "query_source"
    /\ call.pc = "raised"
    /\ Len(sources) > 0
    /\ ~registered(sources, call.source_name)

\* what the query of one source yields when it is run on its own and the
\* database answers
own_rows(src, query_params) ==
    IF src.type = "csv" THEN CSVDataSource_query(src, query_params).rows
    ELSE MongoDBDataSource_results(src, query_params)

\* C5: query_all_sources never raises and returns exactly one entry per
\* registered source, in registration order: no rows for a source whose query
\* failed (validation failure or I/O error), its own rows for every other.
C5_FanOutIsolatesFailures ==
    (call.op = "query_all_sources") =>
        /\ call.pc /= "raised"
        /\ call.pc = "returned" =>
            /\ Len(call.results) = Len(sources)
            /\ \A i \in 1..Len(sources) :
                LET src   == sources[i].source
                    entry == call.results[i]
                    failed == \E j \in 1..Len(call.logged) : call.logged[j] = sources[i].name
                IN  /\ entry.name = sources[i].name
                    /\ source_query(src, call.query_params).kind = "raise" => failed
                    /\ failed => entry.rows = <<>>
                    /\ ~failed => entry.rows = own_rows(src, call.query_params)

\* C5 witness: a fan-out over two sources has returned, one failed and the
\* other contributed rows
C5_Witness ==
    /\ call.op = "query_all_sources"
    /\ call.pc = "returned"
    /\ Len(call.results) = 2
    /\ Len(call.logged) = 1
    /\ \E i \in 1..2 : call.results[i].rows /= <<>>

has_result(name) == \E j \in 1..Len(call.results) : call.results[j].name = name

\* C6: the per-source queries of query_all_sources run independently: while a
\* fan-out is running, every registered source gets its result, or is itself
\* the source whose query has not come back, whatever the other sources do.
C6_SlowSourceDoesNotBlockOthers ==
    \A n \in SourceNames :
        (call.op = "query_all_sources" /\ call.pc /= "returned" /\ registered(sources, n))
            ~> (call.op /= "query_all_sources" \/ has_result(n)
                \/ (call.pc = "waiting" /\ awaited_name = n))

----------------------------------------------------------------------------
(* PricingScraper.  Prices are whole numbers of micro-dollars per hour     *)
(* (0.192 $/h is 192000); a dict of scraped prices is a sequence of pairs  *)
(* in insertion order, a stored dict is a function.                        *)

HoursPerMonth == 730

\* self.historical_prices.get(f"{provider}_prices", {}).get(instance_type)
historical_price_of(h, provider, instance_type) ==
    IF provider \in DOMAIN h.prices /\ instance_type \in DOMAIN h.prices[provider]
    THEN [found |-> TRUE, price |-> h.prices[provider][instance_type]]
    ELSE [found |-> FALSE]

\* the threshold test with the boundary included
is_reduction_inclusive(old, new) ==
    IF old > 0 THEN (old - new) * 100 >= 5 * old ELSE (old - new) * 100 <= 5 * old

\* ((historical_price - current_price) / historical_price) * 100 > 5, for
\* historical_price /= 0
is_reduction(old, new) ==
    IF old > 0 THEN (old - new) * 100 > 5 * old ELSE (old - new) * 100 < 5 * old

\* the dict appended to changes (detected_at is not modelled); reduction_pct
\* is the exact fraction num/den
PriceChange(provider, instance_type, historical_price, current_price) ==
    [provider            |-> provider,
     instance_type       |-> instance_type,
     old_price_per_hour  |-> historical_price,
     new_price_per_hour  |-> current_price,
     old_price_per_month |-> historical_price * HoursPerMonth,
     new_price_per_month |-> current_price * HoursPerMonth,
     reduction_pct       |-> [num |-> (historical_price - current_price) * 100,
                              den |-> historical_price],
     savings_per_hour    |-> historical_price - current_price,
     savings_per_month   |-> (historical_price - current_price) * HoursPerMonth,
     change_type         |-> "price_reduction"]

\* the first loop of detect_price_changes
detected_changes(h, current_prices) ==
    LET of_provider(entry) ==
            LET of_type(item) ==
                    LET historical_price == historical_price_of(h, entry.provider, item.instance_type)
                    IN  IF historical_price.found /\ historical_price.price /= 0
                        THEN IF is_reduction(historical_price.price, item.price)
                             THEN << PriceChange(entry.provider, item.instance_type,
                                                 historical_price.price, item.price) >>
                             ELSE <<>>
                        ELSE <<>>
            IN  flatten([j \in 1..Len(entry.prices) |-> of_type(entry.prices[j])])
    IN  flatten([i \in 1..Len(current_prices) |-> of_provider(current_prices[i])])

\* a dict of scraped prices as the stored dict
as_map(prices) ==
    [t \in {prices[j].instance_type : j \in 1..Len(prices)} |->
        prices[CHOOSE j \in 1..Len(prices) : prices[j].instance_type = t].price]

\* the second loop of detect_price_changes leaving the history untouched
history_kept(h, current_prices) == h

\* the second loop of detect_price_changes: every provider of current_prices
\* gets its scraped dict as "<provider>_prices" and a fresh timestamp
history_with(h, current_prices) ==
    LET provs     == {current_prices[i].provider : i \in 1..Len(current_prices)}
        map_of(p) == as_map(current_prices[CHOOSE i \in 1..Len(current_prices) :
                                               current_prices[i].provider = p].prices)
    IN  [h EXCEPT !.prices = [p \in (DOMAIN h.prices) \cup provs |->
                                 IF p \in provs THEN map_of(p) ELSE h.prices[p]],
                  !.last_updated = @ \cup provs]

\* PricingScraper.detect_price_changes without its final save: the returned
\* changes and the new self.historical_prices
detect_price_changes(h, current_prices) ==
    [changes           |-> detected_changes(h, current_prices),
     historical_prices |-> history_with(h, current_prices)]

\* PricingScraper._save_price_history: the file after the attempt.  open()
\* may fail (the file stays), json.dump may fail after open() truncated the
\* file (the file is left unreadable); neither error leaves the method
_save_price_history(f, prices, outcome) ==
    CASE outcome = "ok"          -> [state |-> "json", data |-> prices]
      [] outcome = "open_failed" -> f
      [] outcome = "dump_failed" -> [state |-> "corrupt"]

SaveOutcomes == {"ok", "open_failed", "dump_failed"}

----------------------------------------------------------------------------
(* detect_price_changes called directly on one scraper *)

\* the prices a scrape may report for an instance type: free, a base price,
\* exactly 5% below it, 6% below it
PricePool == {0, 94, 95, 100}

\* the scraped dicts of one provider: the provider failed ({}), or reports its
\* instance type at some price
ProviderScrapes(instance_type) ==
    {<<>>} \cup {<< [instance_type |-> instance_type, price |-> pr] >> : pr \in PricePool}

\* the current_prices passed in: aws and gcp, or one of them alone
CurrentPricesPool ==
    { << [provider |-> S_aws, prices |-> a], [provider |-> S_gcp, prices |-> g] >> :
          a \in ProviderScrapes(S_m5_xlarge), g \in ProviderScrapes(S_n1_standard_4) }
    \cup { << [provider |-> S_aws, prices |-> a] >> : a \in ProviderScrapes(S_m5_xlarge) }
    \cup { << [provider |-> S_gcp, prices |-> g] >> : g \in ProviderScrapes(S_n1_standard_4) }

\* the pairs of current_prices with their prices
observations(current_prices) ==
    UNION { { << <<current_prices[i].provider, current_prices[i].prices[j].instance_type>>,
                 current_prices[i].prices[j].price >> :
              j \in 1..Len(current_prices[i].prices) } :
            i \in 1..Len(current_prices) }

\* the history file found at construction: none, or the one an earlier run
\* saved after scraping aws
HistoryFilePool ==
    { [state |-> "absent"],
      [state |-> "json",
       data  |-> [prices |-> [p \in {S_aws} |-> [t \in {S_m5_xlarge} |-> 100]],
                  last_updated |-> {S_aws},
                  simulated_reductions |-> EmptyMap]] }

InitDetect ==
    /\ records = <<>>
    /\ analysis = [status |-> "none"]
    /\ sources = <<>>
    /\ call = [op |-> "none", pc |-> "idle"]
    /\ \E f \in HistoryFilePool : ScraperStartedOn(f)

\* scraper.detect_price_changes(current_prices) on the scraper of process 1
DetectPriceChanges ==
    \E current_prices \in CurrentPricesPool, outcome \in {"ok"} :
        LET before == scrapers[1].historical_prices
            r      == detect_price_changes(before, current_prices)
            obs    == observations(current_prices)
        IN  /\ scrapers' = [scrapers EXCEPT ![1].historical_prices = r.historical_prices]
            /\ price_file' = _save_price_history(price_file, r.historical_prices, outcome)
            /\ detect_log' = [called   |-> TRUE,
                              before   |-> before,
                              current_prices |-> current_prices,
                              changes  |-> r.changes,
                              repeated |-> detect_log.called
                                           /\ detect_log.current_prices = current_prices]
            /\ observed' = [k \in (DOMAIN observed) \cup {o[1] : o \in obs} |->
                               IF \E o \in obs : o[1] = k
                               THEN (CHOOSE o \in obs : o[1] = k)[2]
                               ELSE observed[k]]
            /\ UNCHANGED <<overwritten, analyzerVars, registryVars>>

NextDetect == DetectPriceChanges

SpecDetect == InitDetect /\ [][NextDetect]_vars

----------------------------------------------------------------------------
(* detect_price_changes: properties *)

\* C8: after every detect_price_changes call, every provider/instance-type
\* pair observed in some scrape has the most recently observed price as its
\* stored history price, also after a scrape in which its provider failed
\* and contributed an empty map.
C8_HistoryHoldsLastObservedPrice ==
    detect_log.called =>
        \A pair \in DOMAIN observed :
            LET stored == historical_price_of(scrapers[1].historical_prices, pair[1], pair[2])
            IN  stored.found /\ stored.price = observed[pair]

\* the price current_prices carries for a pair
current_price_of(current_prices, provider, instance_type) ==
    LET hits == {o \in observations(current_prices) : o[1] = <<provider, instance_type>>}
    IN  IF hits = {} THEN [found |-> FALSE] ELSE [found |-> TRUE, price |-> (CHOOSE o \in hits : TRUE)[2]]

is_change_for(ch, provider, instance_type) ==
    ch.provider = provider /\ ch.instance_type = instance_type

\* C9: detect_price_changes emits a PriceChange for a pair exactly when a
\* prior price old is recorded for it and (old - new) / old * 100 > 5 (the
\* quotient needs old /= 0); no prior price, a reduction of 5% or less, and
\* an increase emit nothing.
C9_ChangeExactlyOnReductionOverFivePercent ==
    detect_log.called =>
        \A provider \in {S_aws, S_gcp}, instance_type \in {S_m5_xlarge, S_n1_standard_4} :
            LET old == historical_price_of(detect_log.before, provider, instance_type)
                new == current_price_of(detect_log.current_prices, provider, instance_type)
                emitted == {i \in 1..Len(detect_log.changes) :
                               is_change_for(detect_log.changes[i], provider, instance_type)}
            IN  /\ Cardinality(emitted) <= 1
                /\ (emitted /= {}) <=>
                       /\ new.found
                       /\ old.found
                       /\ old.price > 0
                       /\ (old.price - new.price) * 100 > 5 * old.price

\* C9 witness: one call met a reduction of more than 5% (emitted) next to a
\* pair whose price fell by exactly 5% (not emitted)
C9_Witness ==
    /\ detect_log.called
    /\ Len(detect_log.changes) = 1
    /\ \E provider \in {S_aws, S_gcp}, instance_type \in {S_m5_xlarge, S_n1_standard_4} :
        LET old == historical_price_of(detect_log.before, provider, instance_type)
            new == current_price_of(detect_log.current_prices, provider, instance_type)
        IN  /\ old.found /\ new.found
            /\ old.price = 100 /\ new.price = 95

\* C10: a detect_price_changes call made with the same current prices as the
\* call before it returns an empty change list, whatever the history was
\* before the first of the two calls.
C10_SecondCallWithSamePricesIsEmpty ==
    (detect_log.called /\ detect_log.repeated) => detect_log.changes = <<>>

\* C10 witness: the second of two like calls, whose scrape holds a price
\* that the first call may have reported as reduced
C10_Witness ==
    /\ detect_log.called
    /\ detect_log.repeated
    /\ \E i \in 1..Len(detect_log.current_prices) :
           \E j \in 1..Len(detect_log.current_prices[i].prices) :
               /\ detect_log.current_prices[i].prices[j].price = 94
               /\ price_file.state = "json"
               /\ price_file.data = detect_log.before

----------------------------------------------------------------------------
(* PricingScraper: the scrapes.  Prices are in millionths of a dollar per
   hour, so that 0.192 is 192000 *)

S_t3_xlarge       == <<"t","3",".">> \o S_xlarge
S_c5_4xlarge      == <<"c","5",".">> \o S_4xlarge
S_m5_large        == <<"m","5",".","l","a","r","g","e">>
S_t3_medium       == <<"t","3",".","m","e","d","i","u","m">>
S_n1_standard_8   == <<"n","1","-","s","t","a","n","d","a","r","d","-","8">>
S_n1_highmem_4    == <<"n","1","-","h","i","g","h","m","e","m","-","4">>
S_n1_standard_2   == <<"n","1","-","s","t","a","n","d","a","r","d","-","2">>
S_e2_standard_4   == <<"e","2","-","s","t","a","n","d","a","r","d","-","4">>
S_Standard_D8s_v3 == <<"S","t","a","n","d","a","r","d","_","D","8","s","_","v","3">>
S_Standard_B2s    == <<"S","t","a","n","d","a","r","d","_","B","2","s">>
S_Standard_D2s_v3 == <<"S","t","a","n","d","a","r","d","_","D","2","s","_","v","3">>

aws_ec2_prices ==
    << [k |-> S_m5_xlarge, v |-> 192000], [k |-> S_m5_2xlarge, v |-> 384000], [k |-> S_t3_large, v |-> 83200],
       [k |-> S_t3_xlarge, v |-> 166400], [k |-> S_c5_4xlarge, v |-> 680000], [k |-> S_m5_large, v |-> 96000],
       [k |-> S_t3_medium, v |-> 41600] >>

gcp_prices ==
    << [k |-> S_n1_standard_4, v |-> 190000], [k |-> S_n1_standard_8, v |-> 380000], [k |-> S_n1_highmem_4, v |-> 236000],
       [k |-> S_n1_standard_2, v |-> 95000], [k |-> S_e2_standard_4, v |-> 134000] >>

azure_prices ==
    << [k |-> S_Standard_D4s_v3, v |-> 192000], [k |-> S_Standard_D8s_v3, v |-> 384000],
       [k |-> S_Standard_B2s, v |-> 42000], [k |-> S_Standard_D2s_v3, v |-> 96000] >>

\* the instance types scraped when the caller names none
aws_instance_types   == << S_m5_xlarge, S_m5_2xlarge, S_t3_large, S_t3_xlarge, S_c5_4xlarge >>
gcp_instance_types   == << S_n1_standard_4, S_n1_standard_8, S_n1_highmem_4 >>
azure_instance_types == << S_Standard_D4s_v3, S_Standard_D8s_v3, S_Standard_B2s >>

\* table[instance_type], or the estimate for a type the table lacks
table_price(table, instance_type, estimate) ==
    IF pairs_has(table, instance_type) THEN pairs_get(table, instance_type) ELSE estimate

\* PricingScraper.scrape_aws_pricing(): a simulated reduction of the loaded
\* history takes precedence over the table
scrape_aws_pricing(h) ==
    [i \in 1..Len(aws_instance_types) |->
        LET instance_type == aws_instance_types[i]
            reduction_key == S_aws \o COLON \o instance_type
        IN  [instance_type |-> instance_type,
             price |-> IF reduction_key \in DOMAIN h.simulated_reductions
                       THEN h.simulated_reductions[reduction_key].new_price
                       ELSE table_price(aws_ec2_prices, instance_type, 100000)]]

\* PricingScraper.scrape_gcp_pricing()
scrape_gcp_pricing ==
    [i \in 1..Len(gcp_instance_types) |->
        [instance_type |-> gcp_instance_types[i],
         price |-> table_price(gcp_prices, gcp_instance_types[i], 150000)]]

\* PricingScraper.scrape_azure_pricing()
scrape_azure_pricing ==
    [i \in 1..Len(azure_instance_types) |->
        [instance_type |-> azure_instance_types[i],
         price |-> table_price(azure_prices, azure_instance_types[i], 120000)]]

\* PricingScraper.scrape_all_providers: the three scrapes raise nothing, so
\* no provider's except branch is taken
scrape_all_providers(h) ==
    << [provider |-> S_aws,   prices |-> scrape_aws_pricing(h)],
       [provider |-> S_gcp,   prices |-> scrape_gcp_pricing],
       [provider |-> S_azure, prices |-> scrape_azure_pricing] >>

\* the price simulate_price_reduction assumes for a pair the history lacks
simulate_default_price(provider, instance_type) ==
    LET aws_defaults == << [k |-> S_m5_xlarge, v |-> 192000], [k |-> S_t3_large, v |-> 83200],
                           [k |-> S_m5_2xlarge, v |-> 384000] >>
    IN  CASE provider = S_aws   -> table_price(aws_defaults, instance_type, 200000)
          [] provider = S_gcp   -> 190000
          [] provider = S_azure -> 192000
          [] OTHER              -> 200000

\* PricingScraper.simulate_price_reduction without its final save: the
\* history it leaves in self.historical_prices
simulate_price_reduction(h, provider, instance_type, reduction_pct) ==
    LET known         == historical_price_of(h, provider, instance_type)
        current_price == IF known.found THEN known.price
                         ELSE simulate_default_price(provider, instance_type)
        new_price     == (current_price * (100 - reduction_pct)) \div 100
        of_provider   == IF provider \in DOMAIN h.prices THEN h.prices[provider] ELSE EmptyMap
        reduction_key == provider \o COLON \o instance_type
    IN  [h EXCEPT
           !.prices = [p \in (DOMAIN h.prices) \cup {provider} |->
                          IF p = provider
                          THEN [t \in (DOMAIN of_provider) \cup {instance_type} |->
                                   IF t = instance_type THEN current_price ELSE of_provider[t]]
                          ELSE h.prices[p]],
           !.simulated_reductions =
               [k \in (DOMAIN h.simulated_reductions) \cup {reduction_key} |->
                   IF k = reduction_key
                   THEN [old_price |-> current_price, new_price |-> new_price,
                         reduction_pct |-> reduction_pct]
                   ELSE h.simulated_reductions[k]]]

----------------------------------------------------------------------------
(* Two processes on one price-history file: the API server, whose
   PriceMonitor runs check_for_changes, and scripts/demo_price_change.py,
   which constructs its own PricingScraper, simulates a reduction and runs
   check_for_changes.  Neither takes a lock; a step is one read or one
   write of the file together with the in-memory work next to it *)

ScriptProcs == {2}      \* process 1 is the API server, process 2 the script
MaxSimulations == 2     \* simulate_price_reduction calls per process

\* the reductions the script may simulate
SimulationPool == { <<S_aws, S_m5_xlarge, 15>>, <<S_gcp, S_n1_standard_4, 20>> }

\* what a history holds: its baselines and its simulated reductions, by key
entries(h) ==
    UNION { { <<"baseline", p, t>> : t \in DOMAIN h.prices[p] } : p \in DOMAIN h.prices }
        \cup { <<"simulated_reduction", k, <<>>>> : k \in DOMAIN h.simulated_reductions }

\* the entries of the file that process p never read and that the history h
\* it is about to write no longer has
discarded_by(p, h) ==
    (entries(_load_price_history(price_file)) \ entries(scrapers[p].historical_prices)) \ entries(h)

InitStore ==
    /\ records = <<>>
    /\ analysis = [status |-> "none"]
    /\ sources = <<>>
    /\ call = [op |-> "none", pc |-> "idle"]
    /\ ScraperAtStart

\* check_for_changes, first statement: self.scraper.historical_prices is
\* reloaded from the file
CheckReload(p) ==
    /\ scrapers[p].pc = "idle"
    /\ scrapers' = [scrapers EXCEPT ![p].historical_prices = _load_price_history(price_file),
                                    ![p].pc = "reloaded"]
    /\ UNCHANGED <<price_file, detect_log, observed, overwritten, analyzerVars, registryVars>>

\* check_for_changes, the rest: scrape_all_providers, then
\* detect_price_changes, which ends by saving the history
CheckDetect(p) ==
    /\ scrapers[p].pc = "reloaded"
    /\ LET h == scrapers[p].historical_prices
           r == detect_price_changes(h, scrape_all_providers(h))
       IN  /\ scrapers' = [scrapers EXCEPT ![p].historical_prices = r.historical_prices,
                                           ![p].pc = "idle"]
           /\ price_file' = _save_price_history(price_file, r.historical_prices, "ok")
           /\ overwritten' = overwritten \cup discarded_by(p, r.historical_prices)
    /\ UNCHANGED <<detect_log, observed, analyzerVars, registryVars>>

\* scraper.simulate_price_reduction(provider, instance_type, reduction_pct)
\* of the script: it works on the history the scraper holds in memory and
\* saves it
Simulate(p) ==
    /\ p \in ScriptProcs
    /\ scrapers[p].pc = "idle"
    /\ scrapers[p].simulations < MaxSimulations
    /\ \E sim \in SimulationPool :
        LET h == simulate_price_reduction(scrapers[p].historical_prices, sim[1], sim[2], sim[3])
        IN  /\ scrapers' = [scrapers EXCEPT ![p].historical_prices = h,
                                            ![p].simulations = @ + 1]
            /\ price_file' = _save_price_history(price_file, h, "ok")
            /\ overwritten' = overwritten \cup discarded_by(p, h)
    /\ UNCHANGED <<detect_log, observed, analyzerVars, registryVars>>

\* the script is started again: PricingScraper.__init__ loads the file
Construct(p) ==
    /\ p \in ScriptProcs
    /\ scrapers[p].pc = "idle"
    /\ scrapers' = [scrapers EXCEPT ![p].historical_prices = _load_price_history(price_file)]
    /\ UNCHANGED <<price_file, detect_log, observed, overwritten, analyzerVars, registryVars>>

NextStore ==
    \E p \in Procs :
        \/ CheckReload(p)
        \/ CheckDetect(p)
        \/ Simulate(p)
        \/ Construct(p)

SpecStore == InitStore /\ [][NextStore]_vars

\* C7: concurrent scrape-then-persist cycles on the same store behave as
\* atomic read-modify-writes: no cycle writes back a history that discards a
\* baseline or a simulated reduction which another cycle persisted after the
\* first cycle read the store.
C7_NoLostUpdate == overwritten = {}

----------------------------------------------------------------------------
(* The demo sequence of scripts/demo_price_change.py run by one process
   alone: simulate_price_reduction, then check_for_changes *)

\* the reductions simulated: every provider with every instance type of its
\* scrape list, by 10% or 15%
DemoSimulationPool ==
    { <<S_aws, aws_instance_types[i], pct>> : i \in 1..Len(aws_instance_types), pct \in {10, 15} }
    \cup { <<S_gcp, gcp_instance_types[i], pct>> : i \in 1..Len(gcp_instance_types), pct \in {10, 15} }
    \cup { <<S_azure, azure_instance_types[i], pct>> : i \in 1..Len(azure_instance_types), pct \in {10, 15} }

InitDemo ==
    /\ records = <<>>
    /\ analysis = [status |-> "none"]
    /\ sources = <<>>
    /\ call = [op |-> "none", pc |-> "idle"]
    /\ ScraperAtStart

\* scraper.simulate_price_reduction(provider, instance_type, reduction_pct)
DemoSimulate ==
    /\ scrapers[2].simulations < MaxSimulations
    /\ \E sim \in DemoSimulationPool :
        LET h == simulate_price_reduction(scrapers[2].historical_prices, sim[1], sim[2], sim[3])
        IN  /\ scrapers' = [scrapers EXCEPT ![2].historical_prices = h,
                                            ![2].simulations = @ + 1]
            /\ price_file' = _save_price_history(price_file, h, "ok")
            /\ detect_log' = [called |-> FALSE,
                              simulations_since_check |->
                                  IF "simulations_since_check" \in DOMAIN detect_log
                                  THEN detect_log.simulations_since_check + 1 ELSE 1,
                              simulation |-> sim]
    /\ UNCHANGED <<observed, overwritten, analyzerVars, registryVars>>

\* detector.check_for_changes(): reload, scrape, detect, save
DemoCheck ==
    LET h == _load_price_history(price_file)
        current_prices == scrape_all_providers(h)
        r == detect_price_changes(h, current_prices)
    IN  /\ scrapers' = [scrapers EXCEPT ![2].historical_prices = r.historical_prices]
        /\ price_file' = _save_price_history(price_file, r.historical_prices, "ok")
        /\ detect_log' = [called         |-> TRUE,
                          before         |-> h,
                          current_prices |-> current_prices,
                          changes        |-> r.changes,
                          repeated       |-> FALSE,
                          after_simulation |-> /\ "simulations_since_check" \in DOMAIN detect_log
                                               /\ detect_log.simulations_since_check = 1,
                          simulation     |-> IF "simulation" \in DOMAIN detect_log
                                             THEN detect_log.simulation ELSE <<>>]
        /\ UNCHANGED <<observed, overwritten, analyzerVars, registryVars>>

NextDemo == DemoSimulate \/ DemoCheck

SpecDemo == InitDemo /\ [][NextDemo]_vars

\* C11: for every provider and every instance type of its scrape list, the
\* check_for_changes that follows simulate_price_reduction(provider, type,
\* pct) with pct > 5 reports exactly one PriceChange, for that provider and
\* type, with reduction_pct = pct and savings_per_month = old_price * pct/100
\* * 730 (one simulation since the check before).
C11_CheckAfterSimulationReportsIt ==
    (detect_log.called /\ detect_log.after_simulation) =>
        LET sim == detect_log.simulation
        IN  /\ Len(detect_log.changes) = 1
            /\ LET ch == detect_log.changes[1]
               IN  /\ ch.provider = sim[1]
                   /\ ch.instance_type = sim[2]
                   /\ ch.reduction_pct.num = sim[3] * ch.reduction_pct.den
                   /\ (ch.old_price_per_hour * sim[3]) % 100 = 0
                   /\ ch.savings_per_month
                          = ((ch.old_price_per_hour * sim[3]) \div 100) * HoursPerMonth

----------------------------------------------------------------------------
(* CostAnalyzer: a heuristic that raises *)

\* C12: a failure inside one heuristic is not fatal to analyze_costs: when
\* _find_over_provisioned raises on a record (a vm record whose instance_type
\* metric is not a string), analyze_costs still returns, and its
\* opportunities are those of the other heuristics.
C12_HeuristicFailureIsIsolated ==
    (analysis.status /= "none" /\ over_provisioned_raises(records)) =>
        /\ analysis.status = "returned"
        /\ analysis.result.opportunities
              = take(sort_by_savings_desc(_find_idle_resources(records)
                                          \o _find_unattached_storage(records)
                                          \o _find_reserved_instance_opportunities(records)
                                          \o _find_region_optimizations(records)
                                          \o _find_price_change_opportunities(records)), TopN)

----------------------------------------------------------------------------
(* DataSource variants: the provider billing files and the REST API *)

S_lineItem_UsageStartDate == <<"l","i","n","e","I","t","e","m","/","U","s","a","g","e","S","t","a","r","t","D","a","t","e">>
S_usage_start_time        == <<"u","s","a","g","e","_","s","t","a","r","t","_","t","i","m","e">>
S_Date                    == <<"D","a","t","e">>

\* for key, value in query_params['filter'].items(): rows whose cell equals
\* value, for the keys that are columns
apply_filters(src, query_params) ==
    LET flt == IF "filter" \in DOMAIN query_params THEN query_params["filter"] ELSE <<>>
        keep(row) == \A i \in 1..Len(flt) :
                        flt[i].k \in src.columns => val_eq(row[flt[i].k], flt[i].v)
    IN  SelectSeq(src.df, keep)

AWSDataSource_validate_query(query_params) ==
    ~("limit" \in DOMAIN query_params /\ query_params["limit"] > MaxLimit)

\* AWSDataSource.query: filters, date range on lineItem/UsageStartDate, limit
AWSDataSource_query(src, query_params) ==
    IF ~AWSDataSource_validate_query(query_params) THEN Raise("ValueError: Query validation failed")
    ELSE
    LET df1 == apply_filters(src, query_params)
        date_col == S_lineItem_UsageStartDate
        in_range(row) == /\ row[date_col].v >= query_params["date_from"]
                         /\ row[date_col].v <= query_params["date_to"]
        df2 == IF /\ "date_from" \in DOMAIN query_params
                  /\ "date_to" \in DOMAIN query_params
                  /\ date_col \in src.columns
               THEN SelectSeq(df1, in_range) ELSE df1
        limit == dict_get(query_params, "limit", DefaultLimit)
    IN  Return(df_head(df2, limit))

GCPDataSource_validate_query(query_params) ==
    ~("limit" \in DOMAIN query_params /\ query_params["limit"] > MaxLimit)

\* GCPDataSource.query: filters, limit
GCPDataSource_query(src, query_params) ==
    IF ~GCPDataSource_validate_query(query_params) THEN Raise("ValueError: Query validation failed")
    ELSE Return(df_head(apply_filters(src, query_params),
                        dict_get(query_params, "limit", DefaultLimit)))

AzureDataSource_validate_query(query_params) ==
    ~("limit" \in DOMAIN query_params /\ query_params["limit"] > MaxLimit)

\* AzureDataSource.query: filters, limit
AzureDataSource_query(src, query_params) ==
    IF ~AzureDataSource_validate_query(query_params) THEN Raise("ValueError: Query validation failed")
    ELSE Return(df_head(apply_filters(src, query_params),
                        dict_get(query_params, "limit", DefaultLimit)))

S_delete == <<"d","e","l","e","t","e">>
S_drop   == <<"d","r","o","p">>
S_remove == <<"r","e","m","o","v","e">>
S_admin  == <<"a","d","m","i","n">>
dangerous_patterns == <<S_delete, S_drop, S_remove, S_admin>>

\* validate_query checking the endpoint only
RESTAPIDataSource_validate_query_unbounded(src, query_params) ==
    ~\E k \in 1..Len(dangerous_patterns) : contains(dangerous_patterns[k], lower(src.endpoint))

\* RESTAPIDataSource.validate_query on a source [type, endpoint]
RESTAPIDataSource_validate_query(src, query_params) ==
    /\ ~\E k \in 1..Len(dangerous_patterns) : contains(dangerous_patterns[k], lower(src.endpoint))
    /\ ~("limit" \in DOMAIN query_params /\ query_params["limit"] > MaxLimit)

\* seq[:n]
slice_to(seq, n) ==
    IF n >= 0 THEN take(seq, n)
    ELSE take(seq, IF Len(seq) + n > 0 THEN Len(seq) + n ELSE 0)

\* RESTAPIDataSource.query from response.json() on: data is a list, a dict
\* (pairs in order, a value being a list or a scalar), or something else
RESTAPIDataSource_results(data, query_params) ==
    LET limit == dict_get(query_params, "limit", DefaultLimit)
    IN  CASE data.t = "list" -> slice_to(data.v, limit)
          [] data.t = "dict" ->
                LET lists == {i \in 1..Len(data.v) : data.v[i].v.t = "list"}
                IN  IF lists /= {}
                    THEN slice_to(data.v[CHOOSE i \in lists : \A j \in lists : i <= j].v.v, limit)
                    ELSE << data >>
          [] OTHER -> <<>>

\* RESTAPIDataSource.query; response is what httpx.get and raise_for_status
\* yield: [status |-> "ok", data] or [status |-> "error"]
RESTAPIDataSource_query(src, query_params, response) ==
    IF ~RESTAPIDataSource_validate_query(src, query_params)
    THEN Raise("ValueError: Query validation failed")
    ELSE IF response.status = "error" THEN Raise("httpx.HTTPError")
    ELSE Return(RESTAPIDataSource_results(response.data, query_params))

----------------------------------------------------------------------------
(* source.query(query_params) called on one data source *)

BillingRow(date_col, date, service, cost) ==
    (date_col :> IntVal(date)) @@ (S_service :> StrVal(service)) @@ (S_cost :> IntVal(cost))

\* a billing file of the given kind, its date column named as the provider
\* names it
BillingFile(kind, date_col) ==
    [type |-> kind, columns |-> {date_col, S_service, S_cost},
     df |-> << BillingRow(date_col, 1, S_EC2, 10), BillingRow(date_col, 2, S_S3, 5),
               BillingRow(date_col, 3, S_EC2, 20), BillingRow(date_col, 4, S_EC2, 15) >>]

TabularPool ==
    { BillingFile("csv", S_date), BillingFile("aws", S_lineItem_UsageStartDate),
      BillingFile("gcp", S_usage_start_time), BillingFile("azure", S_Date) }

\* query_params of a tabular query: each of filter, date range, sort and
\* limit present or not
TabularParamsPool ==
    { f @@ d @@ o @@ l :
        f \in { NoParams, [filter |-> << [k |-> S_service, v |-> StrVal(S_EC2)] >>] },
        d \in { NoParams, [date_from |-> 2, date_to |-> 4] },
        o \in { NoParams, [sort |-> [column |-> S_cost, ascending |-> FALSE]],
                [sort |-> [column |-> S_cost]] },
        l \in { NoParams, [limit |-> 2], [limit |-> MaxLimit], [limit |-> MaxLimit + 1],
                [limit |-> 0], [limit |-> -1] } }

InitQuery ==
    /\ records = <<>>
    /\ analysis = [status |-> "none"]
    /\ sources = <<>>
    /\ call = [op |-> "none", pc |-> "idle"]
    /\ ScraperAtStart

\* the record of one finished query: what it returned or raised, and the
\* reads of the backing store and the network or database calls it issued
QueryDone(src, query_params, outcome, io) ==
    [op |-> "query", pc |-> "done", source |-> src, query_params |-> query_params,
     outcome |-> outcome, io |-> io]

\* CSVDataSource.query / AWSDataSource.query / GCPDataSource.query /
\* AzureDataSource.query: self.df is read (df.copy()) once validation passed
tabular_query(src, query_params) ==
    CASE src.type = "csv"   -> CSVDataSource_query(src, query_params)
      [] src.type = "aws"   -> AWSDataSource_query(src, query_params)
      [] src.type = "gcp"   -> GCPDataSource_query(src, query_params)
      [] src.type = "azure" -> AzureDataSource_query(src, query_params)

QueryTabular ==
    /\ call.op = "none"
    /\ \E src \in TabularPool, query_params \in TabularParamsPool :
        LET outcome == tabular_query(src, query_params)
        IN  call' = QueryDone(src, query_params, outcome,
                              IF outcome.kind = "raise" THEN <<>> ELSE << "self.df.copy" >>)
    /\ UNCHANGED <<sources, analyzerVars, scraperVars>>

S_or    == <<"$","o","r">>
S_gt    == <<"$","g","t">>
S_one   == <<"1">>
S_costs == <<"c","o","s","t","s">>
S_admin_costs == S_admin \o <<"/">> \o S_costs
S_items == <<"i","t","e","m","s">>
S_total == <<"t","o","t","a","l">>

\* the filters passed to the MongoDB source: plain ones, and ones carrying
\* $where, $eval or $function as a key or a value, at the top or nested
MongoFilterPool ==
    { << [k |-> S_service, v |-> StrVal(S_EC2)] >>,
      << [k |-> S_cost, v |-> DictVal(<< [k |-> S_gt, v |-> IntVal(1)] >>)] >>,
      << [k |-> S_where, v |-> StrVal(S_one)] >>,
      << [k |-> S_service, v |-> StrVal(S_eval)] >>,
      << [k |-> S_service, v |-> DictVal(<< [k |-> S_function, v |-> StrVal(S_one)] >>)] >>,
      << [k |-> S_service, v |-> StrVal(S_EC2)],
         [k |-> S_cost, v |-> DictVal(<< [k |-> S_gt,
                                          v |-> DictVal(<< [k |-> S_where, v |-> StrVal(S_one)] >>)] >>)] >>,
      << [k |-> S_or, v |-> ListVal(<< DictVal(<< [k |-> S_service, v |-> StrVal(S_S3)] >>),
                                       DictVal(<< [k |-> S_eval, v |-> StrVal(S_one)] >>) >>)] >> }

MongoParamsPool ==
    { f @@ l :
        f \in { NoParams } \cup { [filter |-> flt] : flt \in MongoFilterPool },
        l \in { NoParams, [limit |-> 1], [limit |-> MaxLimit], [limit |-> MaxLimit + 1],
                [limit |-> 0], [limit |-> -1] } }

MongoCollection ==
    [type |-> "mongodb", docs |-> <<MongoDoc(1, S_EC2, 30), MongoDoc(2, S_S3, 8)>>]

\* MongoDBDataSource.query, the server answering the find or failing it
QueryMongoDB ==
    /\ call.op = "none"
    /\ \E query_params \in MongoParamsPool, answered \in BOOLEAN :
        LET started == MongoDBDataSource_query(MongoCollection, query_params)
        IN  call' = IF started.kind = "raise"
                    THEN QueryDone(MongoCollection, query_params, started, <<>>)
                    ELSE QueryDone(MongoCollection, query_params,
                                   IF answered
                                   THEN Return(MongoDBDataSource_results(MongoCollection, query_params))
                                   ELSE Raise("pymongo.errors.PyMongoError"),
                                   << "collection.find" >>)
    /\ UNCHANGED <<sources, analyzerVars, scraperVars>>

RestPool == { [type |-> "rest", endpoint |-> S_costs], [type |-> "rest", endpoint |-> S_admin_costs] }

RestParamsPool == { NoParams, [limit |-> 1], [limit |-> MaxLimit], [limit |-> MaxLimit + 1], [limit |-> 0], [limit |-> -1] }

\* what the API answers: a list of rows, a dict holding a list, a dict
\* holding none, a bare number, or an HTTP error
RestResponsePool ==
    LET row(n) == DictVal(<< [k |-> S_cost, v |-> IntVal(n)] >>)
    IN  { [status |-> "ok", data |-> ListVal(<< row(1), row(2) >>)],
          [status |-> "ok", data |-> DictVal(<< [k |-> S_total, v |-> IntVal(2)],
                                                [k |-> S_items, v |-> ListVal(<< row(1), row(2) >>)] >>)],
          [status |-> "ok", data |-> row(3)],
          [status |-> "ok", data |-> IntVal(7)],
          [status |-> "error"] }

\* RESTAPIDataSource.query
QueryREST ==
    /\ call.op = "none"
    /\ \E src \in RestPool, query_params \in RestParamsPool, response \in RestResponsePool :
        call' = QueryDone(src, query_params, RESTAPIDataSource_query(src, query_params, response),
                          IF RESTAPIDataSource_validate_query(src, query_params)
                          THEN << "httpx.get" >> ELSE <<>>)
    /\ UNCHANGED <<sources, analyzerVars, scraperVars>>

NextQuery == QueryTabular \/ QueryMongoDB \/ QueryREST

SpecQuery == InitQuery /\ [][NextQuery]_vars

----------------------------------------------------------------------------
(* source.query: properties *)

TabularKinds == {"csv", "aws", "gcp", "azure"}

\* the date column of a tabular source
date_column_of(src, query_params) ==
    CASE src.type = "csv"   -> dict_get(query_params, "date_column", S_date)
      [] src.type = "aws"   -> S_lineItem_UsageStartDate
      [] src.type = "gcp"   -> S_usage_start_time
      [] src.type = "azure" -> S_Date

\* equality filters, then the date range, then the sort, then the limit
filtered_dated_sorted_limited(src, query_params) ==
    LET date_col == date_column_of(src, query_params)
        in_range(row) == /\ row[date_col].v >= query_params["date_from"]
                         /\ row[date_col].v <= query_params["date_to"]
        dated == IF {"date_from", "date_to"} \subseteq DOMAIN query_params /\ date_col \in src.columns
                 THEN SelectSeq(apply_filters(src, query_params), in_range)
                 ELSE apply_filters(src, query_params)
        sorted == IF "sort" \in DOMAIN query_params /\ query_params["sort"].column \in src.columns
                  THEN df_sort_values(dated, query_params["sort"].column,
                                      dict_get(query_params["sort"], "ascending", TRUE))
                  ELSE dated
    IN  take(sorted, dict_get(query_params, "limit", DefaultLimit))

\* C13: for each tabular source (CSV, AWS, GCP, Azure) an accepted query
\* returns the rows obtained by applying the equality filters, then the date
\* range on the source's date column, then the single-column sort in the
\* requested direction, then the limit (100 when none is given).
C13_TabularQueryAppliesAllStages ==
    ( /\ call.op = "query"
      /\ call.source.type \in TabularKinds
      /\ dict_get(call.query_params, "limit", DefaultLimit) <= MaxLimit ) =>
        call.outcome = Return(filtered_dated_sorted_limited(call.source, call.query_params))

ValidationErrors ==
    {"ValueError: Query validation failed",
     "ValueError: Query validation failed: Unsafe operation detected"}

RECURSIVE mentions_operator(_)
\* a filter value holds $where, $eval or $function as a key or as a string
\* value, at any depth
mentions_operator(v) ==
    LET ops == {S_where, S_eval, S_function}
    IN  CASE v.t = "str"  -> v.v \in ops
          [] v.t = "int"  -> FALSE
          [] v.t = "dict" -> \E i \in 1..Len(v.v) : v.v[i].k \in ops \/ mentions_operator(v.v[i].v)
          [] v.t = "list" -> \E i \in 1..Len(v.v) : mentions_operator(v.v[i])

\* the query is refused for something else than its limit
refused_otherwise(src, query_params) ==
    \/ /\ src.type = "mongodb"
       /\ "filter" \in DOMAIN query_params
       /\ mentions_operator(DictVal(query_params["filter"]))
    \/ /\ src.type = "rest"
       /\ src.endpoint = S_admin_costs

\* C14: for every data-source variant a query with limit > 10000 raises the
\* validation error before any row of the backing store is read and before
\* any network or database call is issued, and limit = 10000 is accepted.
C14_OversizedLimitRejectedBeforeIO ==
    (call.op = "query" /\ "limit" \in DOMAIN call.query_params) =>
        /\ call.query_params["limit"] > MaxLimit =>
              /\ call.outcome.kind = "raise"
              /\ call.outcome.error \in ValidationErrors
              /\ call.io = <<>>
        /\ ( /\ call.query_params["limit"] = MaxLimit
             /\ ~refused_otherwise(call.source, call.query_params) ) =>
              /\ call.io /= <<>>
              /\ call.outcome.kind = "raise" => call.outcome.error \notin ValidationErrors

\* C14 witness: the REST source has refused a limit of 10001 on a harmless endpoint
C14_Witness ==
    /\ call.op = "query"
    /\ call.query_params = [limit |-> MaxLimit + 1]
    /\ call.source.type = "rest"
    /\ call.source.endpoint = S_costs
    /\ call.outcome.kind = "raise"

\* C15: MongoDBDataSource.validate_query rejects every query whose filter
\* holds $where, $eval or $function as a key or value at any nesting depth,
\* and query with such a filter raises before collection.find is called.
C15_OperatorInjectionRejected ==
    ( /\ call.op = "query"
      /\ call.source.type = "mongodb"
      /\ "filter" \in DOMAIN call.query_params
      /\ mentions_operator(DictVal(call.query_params["filter"])) ) =>
        /\ ~MongoDBDataSource_validate_query(call.query_params)
        /\ call.outcome.kind = "raise"
        /\ call.outcome.error \in ValidationErrors
        /\ call.io = <<>>

\* C15 witness: a filter with the operator two dicts deep was refused
C15_Witness ==
    /\ call.op = "query"
    /\ call.source.type = "mongodb"
    /\ "filter" \in DOMAIN call.query_params
    /\ Len(call.query_params["filter"]) = 2
    /\ "limit" \notin DOMAIN call.query_params
    /\ call.outcome.kind = "raise"

----------------------------------------------------------------------------
(* CostNormalizer.  A raw row is a dict from field names to values; a value
   is a str, a number, or None *)

F_lineItem_ResourceId       == <<"l","i","n","e","I","t","e","m","/","R","e","s","o","u","r","c","e","I","d">>
F_lineItem_UnblendedCost    == <<"l","i","n","e","I","t","e","m","/","U","n","b","l","e","n","d","e","d","C","o","s","t">>
F_lineItem_ProductCode      == <<"l","i","n","e","I","t","e","m","/","P","r","o","d","u","c","t","C","o","d","e">>
F_lineItem_UsageType        == <<"l","i","n","e","I","t","e","m","/","U","s","a","g","e","T","y","p","e">>
F_lineItem_AvailabilityZone == <<"l","i","n","e","I","t","e","m","/","A","v","a","i","l","a","b","i","l","i","t","y","Z","o","n","e">>
F_lineItem_Operation        == <<"l","i","n","e","I","t","e","m","/","O","p","e","r","a","t","i","o","n">>
F_product_InstanceType      == <<"p","r","o","d","u","c","t","/","I","n","s","t","a","n","c","e","T","y","p","e">>
F_resourceTags              == <<"r","e","s","o","u","r","c","e","T","a","g","s","/">>
F_resource_name             == <<"r","e","s","o","u","r","c","e",".","n","a","m","e">>
F_service_description       == <<"s","e","r","v","i","c","e",".","d","e","s","c","r","i","p","t","i","o","n">>
F_location_region           == <<"l","o","c","a","t","i","o","n",".","r","e","g","i","o","n">>
F_sku_description           == <<"s","k","u",".","d","e","s","c","r","i","p","t","i","o","n">>
F_project_id                == <<"p","r","o","j","e","c","t",".","i","d">>
F_ResourceId                == <<"R","e","s","o","u","r","c","e","I","d">>
F_cost                      == <<"c","o","s","t">>
F_Cost                      == <<"C","o","s","t">>
F_ServiceName               == <<"S","e","r","v","i","c","e","N","a","m","e">>
F_ResourceLocation          == <<"R","e","s","o","u","r","c","e","L","o","c","a","t","i","o","n">>
F_MeterCategory             == <<"M","e","t","e","r","C","a","t","e","g","o","r","y">>
F_ResourceGroup             == <<"R","e","s","o","u","r","c","e","G","r","o","u","p">>
F_SubscriptionId            == <<"S","u","b","s","c","r","i","p","t","i","o","n","I","d">>
F_resource_id               == <<"r","e","s","o","u","r","c","e","_","i","d">>
F_service_category          == <<"s","e","r","v","i","c","e","_","c","a","t","e","g","o","r","y">>
F_resource_type             == <<"r","e","s","o","u","r","c","e","_","t","y","p","e">>
F_cost_usd                  == <<"c","o","s","t","_","u","s","d">>
F_usage_metrics             == <<"u","s","a","g","e","_","m","e","t","r","i","c","s">>
F_region                    == <<"r","e","g","i","o","n">>
F_tags                      == <<"t","a","g","s">>

S_network  == <<"n","e","t","w","o","r","k">>
S_other    == <<"o","t","h","e","r">>
S_function_type == <<"f","u","n","c","t","i","o","n">>

NoneVal == [t |-> "none", v |-> <<>>]

NormRaise(error)   == [kind |-> "raise", error |-> error]
NormRecord(record) == [kind |-> "record", record |-> record]

\* the digits of s as a number, s being a non-empty run of digits
digits_value(s) ==
    LET digit(c) == CHOOSE d \in 0..9 : DigitChars[d + 1] = c
        f[i \in 0..Len(s)] == IF i = 0 THEN 0 ELSE f[i - 1] * 10 + digit(s[i])
    IN  f[Len(s)]

is_digits(s) == s /= <<>> /\ \A i \in 1..Len(s) : \E d \in 1..10 : DigitChars[d] = s[i]

\* float(v): a number is itself, a str of digits with an optional sign is
\* parsed, any other str is a ValueError, None a TypeError
py_float(v) ==
    CASE v.t = "int" -> [ok |-> TRUE, value |-> v.v]
      [] v.t = "str" ->
            IF is_digits(v.v) THEN [ok |-> TRUE, value |-> digits_value(v.v)]
            ELSE IF v.v /= <<>> /\ v.v[1] = "-" /\ is_digits(Tail(v.v))
                 THEN [ok |-> TRUE, value |-> 0 - digits_value(Tail(v.v))]
                 ELSE [ok |-> FALSE, error |-> "ValueError"]
      [] OTHER -> [ok |-> FALSE, error |-> "TypeError"]

\* any(x in text for x in words)
any_in(words, text) == \E k \in 1..Len(words) : contains(words[k], text)

\* CostNormalizer._categorize_service on a str
_categorize_service(service) ==
    LET service_lower == lower(service)
    IN  IF any_in(<< <<"e","c","2">>,
       <<"c","o","m","p","u","t","e">>,
       <<"v","m">>,
       <<"i","n","s","t","a","n","c","e">>,
       <<"v","i","r","t","u","a","l"," ","m","a","c","h","i","n","e">> >>, service_lower)
        THEN S_compute
        ELSE IF any_in(<< <<"s","3">>,
       <<"s","t","o","r","a","g","e">>,
       <<"b","l","o","b">>,
       <<"b","u","c","k","e","t">> >>, service_lower)
        THEN S_storage
        ELSE IF any_in(<< <<"r","d","s">>,
       <<"d","a","t","a","b","a","s","e">>,
       <<"s","q","l">>,
       <<"d","y","n","a","m","o","d","b">>,
       <<"c","o","s","m","o","s">> >>, service_lower)
        THEN S_database
        ELSE IF any_in(<< <<"v","p","c">>,
       <<"n","e","t","w","o","r","k">>,
       <<"l","o","a","d"," ","b","a","l","a","n","c","e","r">>,
       <<"n","a","t">>,
       <<"g","a","t","e","w","a","y">> >>, service_lower)
        THEN S_network
        ELSE S_other

\* CostNormalizer._determine_resource_type on the two strs formatted into
\* f"{service} {usage_type}"
_determine_resource_type(service, usage_type) ==
    LET combined == lower(service \o <<" ">> \o usage_type)
    IN  IF any_in(<< <<"e","c","2">>,
       <<"c","o","m","p","u","t","e"," ","e","n","g","i","n","e">>,
       <<"v","i","r","t","u","a","l"," ","m","a","c","h","i","n","e">> >>, combined)
        THEN S_vm
        ELSE IF any_in(<< <<"s","3">>,
       <<"s","t","o","r","a","g","e">>,
       <<"b","l","o","b">> >>, combined)
        THEN S_storage
        ELSE IF any_in(<< <<"r","d","s">>,
       <<"s","q","l">>,
       <<"d","a","t","a","b","a","s","e">> >>, combined)
        THEN S_database
        ELSE IF any_in(<< <<"l","a","m","b","d","a">>,
       <<"f","u","n","c","t","i","o","n">>,
       <<"c","l","o","u","d"," ","f","u","n","c","t","i","o","n">> >>, combined)
        THEN S_function_type
        ELSE S_other

\* str(v) inside an f-string
py_str(v) == IF v.t = "none" THEN <<"N","o","n","e">> ELSE str_of(v)

\* truth value of a raw value
py_truthy(v) == IF v.t = "none" THEN FALSE ELSE truthy(v)

\* the plain value carried by a raw value
untag(v) == v.v

\* s.startswith(prefix)
startswith(s, prefix) == Len(s) >= Len(prefix) /\ SubSeq(s, 1, Len(prefix)) = prefix

RECURSIVE str_remove(_, _)
\* s.replace(sub, '') for a non-empty sub
str_remove(s, sub) ==
    IF Len(s) < Len(sub) THEN s
    ELSE IF SubSeq(s, 1, Len(sub)) = sub
         THEN str_remove(SubSeq(s, Len(sub) + 1, Len(s)), sub)
         ELSE <<s[1]>> \o str_remove(Tail(s), sub)

\* s.split('-')[0]
split_hyphen_first(s) ==
    LET hyphens == {i \in 1..Len(s) : s[i] = "-"}
    IN  IF hyphens = {} THEN s
        ELSE SubSeq(s, 1, (CHOOSE i \in hyphens : \A j \in hyphens : i <= j) - 1)

\* CostNormalizer.normalize_aws
normalize_aws(aws_record) ==
    LET resource_id == dict_get(aws_record, F_lineItem_ResourceId, StrVal(<<>>))
        cost        == py_float(dict_get(aws_record, F_lineItem_UnblendedCost, IntVal(0)))
        service     == dict_get(aws_record, F_lineItem_ProductCode, StrVal(<<>>))
        usage_type  == dict_get(aws_record, F_lineItem_UsageType, StrVal(<<>>))
        region      == dict_get(aws_record, F_lineItem_AvailabilityZone, StrVal(<<>>))
        tag_fields  == {k \in DOMAIN aws_record : startswith(k, F_resourceTags)}
        tags        == [t \in {str_remove(k, F_resourceTags) : k \in tag_fields} |->
                           aws_record[CHOOSE k \in tag_fields : str_remove(k, F_resourceTags) = t]]
    IN  IF ~cost.ok THEN NormRaise(cost.error)
        ELSE IF service.t /= "str" THEN NormRaise("AttributeError")
        ELSE IF py_truthy(region) /\ region.t /= "str" THEN NormRaise("AttributeError")
        ELSE NormRecord(UnifiedCostRecord(
                 untag(resource_id), S_aws,
                 _categorize_service(service.v),
                 _determine_resource_type(service.v, py_str(usage_type)),
                 IF py_truthy(region) THEN split_hyphen_first(region.v) ELSE <<>>,
                 cost.value,
                 [usage_type    |-> usage_type,
                  operation     |-> dict_get(aws_record, F_lineItem_Operation, StrVal(<<>>)),
                  instance_type |-> dict_get(aws_record, F_product_InstanceType, StrVal(<<>>))],
                 tags))

\* CostNormalizer.normalize_gcp
normalize_gcp(gcp_record) ==
    LET cost    == py_float(dict_get(gcp_record, F_cost, IntVal(0)))
        service == dict_get(gcp_record, F_service_description, StrVal(<<>>))
        sku     == dict_get(gcp_record, F_sku_description, StrVal(<<>>))
        project == dict_get(gcp_record, F_project_id, StrVal(<<>>))
    IN  IF ~cost.ok THEN NormRaise(cost.error)
        ELSE IF service.t /= "str" THEN NormRaise("AttributeError")
        ELSE NormRecord(UnifiedCostRecord(
                 untag(dict_get(gcp_record, F_resource_name, StrVal(<<>>))), S_gcp,
                 _categorize_service(service.v),
                 _determine_resource_type(service.v, py_str(sku)),
                 untag(dict_get(gcp_record, F_location_region, StrVal(<<>>))),
                 cost.value,
                 [sku |-> sku, project |-> project],
                 [project |-> project]))

\* CostNormalizer.normalize_azure
normalize_azure(azure_record) ==
    LET cost    == py_float(dict_get(azure_record, F_Cost, IntVal(0)))
        service == dict_get(azure_record, F_ServiceName, StrVal(<<>>))
        meter   == dict_get(azure_record, F_MeterCategory, StrVal(<<>>))
    IN  IF ~cost.ok THEN NormRaise(cost.error)
        ELSE IF service.t /= "str" THEN NormRaise("AttributeError")
        ELSE NormRecord(UnifiedCostRecord(
                 untag(dict_get(azure_record, F_ResourceId, StrVal(<<>>))), S_azure,
                 _categorize_service(service.v),
                 _determine_resource_type(service.v, py_str(meter)),
                 untag(dict_get(azure_record, F_ResourceLocation, StrVal(<<>>))),
                 cost.value,
                 [meter_category |-> meter,
                  resource_group |-> dict_get(azure_record, F_ResourceGroup, StrVal(<<>>))],
                 [subscription |-> dict_get(azure_record, F_SubscriptionId, StrVal(<<>>))]))

\* CostNormalizer.normalize_csv
normalize_csv(csv_record, cloud_provider) ==
    LET cost == py_float(dict_get(csv_record, F_cost_usd, IntVal(0)))
    IN  IF ~cost.ok THEN NormRaise(cost.error)
        ELSE NormRecord(UnifiedCostRecord(
                 untag(dict_get(csv_record, F_resource_id, StrVal(<<>>))), cloud_provider,
                 untag(dict_get(csv_record, F_service_category, StrVal(<<>>))),
                 untag(dict_get(csv_record, F_resource_type, StrVal(<<>>))),
                 untag(dict_get(csv_record, F_region, StrVal(<<>>))),
                 cost.value,
                 dict_get(csv_record, F_usage_metrics, NoMetrics),
                 dict_get(csv_record, F_tags, NoTags)))

\* the branch normalize_batch takes for one row
normalize_one(record, provider) ==
    CASE provider = S_aws   -> normalize_aws(record)
      [] provider = S_gcp   -> normalize_gcp(record)
      [] provider = S_azure -> normalize_azure(record)
      [] OTHER              -> normalize_csv(record, provider)

\* normalize_batch stopping at the first row that fails
normalize_batch_aborting(rows, provider) ==
    LET f[i \in 0..Len(rows)] ==
            IF i = 0 THEN <<>>
            ELSE IF Len(f[i - 1]) < i - 1 THEN f[i - 1]
            ELSE LET n == normalize_one(rows[i], provider)
                 IN  IF n.kind = "record" THEN Append(f[i - 1], n.record) ELSE f[i - 1]
    IN  f[Len(rows)]

\* CostNormalizer.normalize_batch: the rows that normalize, in order; a row
\* that raises is logged and skipped
normalize_batch(rows, provider) ==
    flatten([i \in 1..Len(rows) |->
                LET n == normalize_one(rows[i], provider)
                IN  IF n.kind = "record" THEN << n.record >> ELSE <<>>])

----------------------------------------------------------------------------
(* CostNormalizer.normalize_batch on a batch of raw rows *)

MaxRows == 2      \* rows of a batch

S_custom == <<"d","i","g","i","t","a","l","o","c","e","a","n">>

\* rows of an AWS Cost and Usage Report: complete, cost as text, cost and
\* zone absent, cost unparsable, cost None, a negative cost (credit) with a
\* zone without hyphen, a product code that is not a str
AwsRowPool ==
    { (F_lineItem_ResourceId :> StrVal(<<"i","-","1">>)) @@ (F_lineItem_UnblendedCost :> IntVal(12)) @@ (F_lineItem_ProductCode :> StrVal(<<"A","m","a","z","o","n","E","C","2">>)) @@ (F_lineItem_UsageType :> StrVal(<<"B","o","x","U","s","a","g","e">>)) @@ (F_lineItem_AvailabilityZone :> StrVal(<<"u","s","-","e","a","s","t","-","1","a">>)) @@ (F_product_InstanceType :> StrVal(S_m5_xlarge)) @@ (F_resourceTags \o <<"e","n","v">> :> StrVal(<<"p","r","o","d">>)),
      (F_lineItem_ResourceId :> StrVal(<<"b","-","2">>)) @@ (F_lineItem_UnblendedCost :> StrVal(<<"3","0">>)) @@ (F_lineItem_ProductCode :> StrVal(<<"A","m","a","z","o","n","S","3">>)) @@ (F_lineItem_AvailabilityZone :> StrVal(<<"e","u","-","w","e","s","t","-","1","b">>)),
      (F_lineItem_ResourceId :> StrVal(<<"r","-","3">>)) @@ (F_lineItem_ProductCode :> StrVal(<<"A","m","a","z","o","n","R","D","S">>)),
      (F_lineItem_ResourceId :> StrVal(<<"i","-","4">>)) @@ (F_lineItem_UnblendedCost :> StrVal(<<"n","/","a">>)) @@ (F_lineItem_ProductCode :> StrVal(<<"A","m","a","z","o","n","E","C","2">>)) @@ (F_lineItem_AvailabilityZone :> StrVal(<<"u","s","-","e","a","s","t","-","1","a">>)),
      (F_lineItem_ResourceId :> StrVal(<<"i","-","5">>)) @@ (F_lineItem_UnblendedCost :> NoneVal) @@ (F_lineItem_ProductCode :> StrVal(<<"A","m","a","z","o","n","E","C","2">>)),
      (F_lineItem_ResourceId :> StrVal(<<"c","-","6">>)) @@ (F_lineItem_UnblendedCost :> IntVal(0 - 5)) @@ (F_lineItem_ProductCode :> StrVal(<<"A","W","S","L","a","m","b","d","a">>)) @@ (F_lineItem_AvailabilityZone :> StrVal(<<"l","o","c","a","l">>)),
      (F_lineItem_ResourceId :> StrVal(<<"x","-","7">>)) @@ (F_lineItem_UnblendedCost :> IntVal(3)) @@ (F_lineItem_ProductCode :> NoneVal) }

\* rows of a GCP billing export
GcpRowPool ==
    { (F_resource_name :> StrVal(<<"v","m","-","1">>)) @@ (F_cost :> IntVal(20)) @@ (F_service_description :> StrVal(<<"C","o","m","p","u","t","e"," ","E","n","g","i","n","e">>)) @@ (F_location_region :> StrVal(<<"u","s","-","c","e","n","t","r","a","l","1">>)) @@ (F_sku_description :> StrVal(<<"N","1"," ","c","o","r","e">>)) @@ (F_project_id :> StrVal(<<"p","1">>)),
      (F_resource_name :> StrVal(<<"b","-","2">>)) @@ (F_cost :> StrVal(<<"-","3">>)) @@ (F_service_description :> StrVal(<<"C","l","o","u","d"," ","S","t","o","r","a","g","e">>)),
      (F_resource_name :> StrVal(<<"q","-","3">>)) @@ (F_cost :> StrVal(<<"f","r","e","e">>)) @@ (F_service_description :> StrVal(<<"B","i","g","Q","u","e","r","y">>)),
      (F_resource_name :> StrVal(<<"n","-","4">>)) @@ (F_service_description :> StrVal(<<"C","l","o","u","d"," ","N","A","T">>)) }

\* rows of an Azure cost export
AzureRowPool ==
    { (F_ResourceId :> StrVal(<<"v","m","-","1">>)) @@ (F_Cost :> IntVal(40)) @@ (F_ServiceName :> StrVal(<<"V","i","r","t","u","a","l"," ","M","a","c","h","i","n","e","s">>)) @@ (F_ResourceLocation :> StrVal(<<"e","a","s","t","u","s">>)) @@ (F_MeterCategory :> StrVal(<<"V","i","r","t","u","a","l"," ","M","a","c","h","i","n","e","s">>)) @@ (F_ResourceGroup :> StrVal(<<"r","g">>)) @@ (F_SubscriptionId :> StrVal(<<"s","1">>)),
      (F_ResourceId :> StrVal(<<"f","-","2">>)) @@ (F_Cost :> NoneVal) @@ (F_ServiceName :> StrVal(<<"F","u","n","c","t","i","o","n","s">>)),
      (F_ResourceId :> StrVal(<<"d","-","3">>)) @@ (F_Cost :> StrVal(<<"9">>)) @@ (F_ServiceName :> StrVal(<<"C","o","s","m","o","s"," ","D","B">>)),
      (F_ResourceId :> StrVal(<<"u","-","4">>)) @@ (F_Cost :> IntVal(1)) @@ (F_ServiceName :> IntVal(7)) }

\* rows of a custom provider's CSV, normalized by normalize_csv
CustomRowPool ==
    { (F_resource_id :> StrVal(<<"v","m","-","1">>)) @@ (F_resource_type :> StrVal(S_vm)) @@ (F_service_category :> StrVal(S_compute)) @@ (F_cost_usd :> IntVal(7)) @@ (F_region :> StrVal(<<"f","r","a","1">>)),
      (F_resource_id :> StrVal(<<"k","-","2">>)) @@ (F_resource_type :> StrVal(<<"c","o","n","t","a","i","n","e","r">>)) @@ (F_service_category :> StrVal(<<"m","l">>)) @@ (F_cost_usd :> StrVal(<<"3">>)),
      [k \in {} |-> NoneVal],
      (F_resource_id :> StrVal(<<"z","-","4">>)) @@ (F_resource_type :> StrVal(S_storage)) @@ (F_service_category :> StrVal(S_storage)) @@ (F_cost_usd :> StrVal(<<>>)) }

RowPool(provider) ==
    CASE provider = S_aws   -> AwsRowPool
      [] provider = S_gcp   -> GcpRowPool
      [] provider = S_azure -> AzureRowPool
      [] OTHER              -> CustomRowPool

\* the batches of at most MaxRows rows
Batches(provider) ==
    UNION { [1..n -> RowPool(provider)] : n \in 0..MaxRows }

InitNormalizer ==
    /\ records = <<>>
    /\ analysis = [status |-> "none"]
    /\ sources = <<>>
    /\ call = [op |-> "none", pc |-> "idle"]
    /\ ScraperAtStart

\* normalizer.normalize_batch(rows, provider); the rows that raised are
\* kept by position next to the call
NormalizeBatch ==
    /\ call.op = "none"
    /\ \E provider \in {S_aws, S_gcp, S_azure, S_custom} :
       \E rows \in Batches(provider) :
        /\ records' = normalize_batch(rows, provider)
        /\ call' = [op |-> "normalize_batch", pc |-> "returned", rows |-> rows,
                    provider |-> provider,
                    skipped |-> {i \in 1..Len(rows) : normalize_one(rows[i], provider).kind = "raise"}]
    /\ UNCHANGED <<analysis, sources, scraperVars>>

NextNormalizer == NormalizeBatch

SpecNormalizer == InitNormalizer /\ [][NextNormalizer]_vars

----------------------------------------------------------------------------
(* CostNormalizer: properties *)

normalized == call.op = "normalize_batch"

\* the rows of the batch that were not skipped, and the output record of one
kept_rows == {i \in 1..Len(call.rows) : i \notin call.skipped}
record_of_row(i) == records[i - Cardinality({j \in call.skipped : j < i})]

\* C16: normalize_batch never raises and returns exactly the records of the
\* rows that normalize, in input order; a failing row is skipped and every
\* later row is still processed (output length <= input length).
C16_BatchSkipsFailingRows ==
    normalized =>
        /\ call.pc = "returned"
        /\ Len(records) = Cardinality(kept_rows)
        /\ Len(records) <= Len(call.rows)
        /\ \A i \in kept_rows : record_of_row(i) = normalize_one(call.rows[i], call.provider).record

\* C16 witness: the first row failed and the second row was normalized
C16_Witness ==
    /\ normalized
    /\ Len(call.rows) = 2
    /\ call.skipped = {1}
    /\ Len(records) = 1

\* the cost field of a provider's rows
cost_field_of(provider) ==
    CASE provider = S_aws   -> F_lineItem_UnblendedCost
      [] provider = S_gcp   -> F_cost
      [] provider = S_azure -> F_Cost
      [] OTHER              -> F_cost_usd

\* the row has no cost, or one that is not a number nor the text of one
cost_missing_or_unparsable(row, provider) ==
    \/ cost_field_of(provider) \notin DOMAIN row
    \/ ~py_float(row[cost_field_of(provider)]).ok

\* C17: for every provider, a row whose cost field is absent or cannot be
\* parsed as a number is normalized without an exception into a record with
\* cost_usd = 0.
C17_BadCostBecomesZero ==
    normalized =>
        \A i \in 1..Len(call.rows) :
            cost_missing_or_unparsable(call.rows[i], call.provider) =>
                /\ i \in kept_rows
                /\ record_of_row(i).cost_usd = 0

\* C18: every record normalize_batch produces, for any provider including
\* custom ones, has resource_type in {vm, storage, database, function,
\* other} and service_category in {compute, storage, database, network,
\* other}.
C18_CategoriesAreFromTheEnumerations ==
    normalized =>
        \A k \in 1..Len(records) :
            /\ records[k].resource_type \in {S_vm, S_storage, S_database, S_function_type, S_other}
            /\ records[k].service_category \in {S_compute, S_storage, S_database, S_network, S_other}

\* C19: every record the normalizer produces has cost_usd >= 0, whatever
\* number the raw row carries in its cost field.
C19_CostIsNeverNegative ==
    normalized => \A k \in 1..Len(records) : records[k].cost_usd >= 0

\* s without its last hyphen-separated segment
without_last_segment(s) ==
    LET hyphens == {i \in 1..Len(s) : s[i] = "-"}
    IN  IF hyphens = {} THEN <<>>
        ELSE SubSeq(s, 1, (CHOOSE i \in hyphens : \A j \in hyphens : i >= j) - 1)

\* C20: normalize_aws sets region to the availability zone without its last
\* hyphen-separated segment (for a zone of several segments), and to the
\* empty string when the availability zone is absent.
C20_AwsRegionIsZoneWithoutLastSegment ==
    (normalized /\ call.provider = S_aws) =>
        \A i \in kept_rows :
            IF F_lineItem_AvailabilityZone \in DOMAIN call.rows[i]
            THEN LET zone == call.rows[i][F_lineItem_AvailabilityZone].v
                 IN  contains(<<"-">>, zone) => record_of_row(i).region = without_last_segment(zone)
            ELSE record_of_row(i).region = <<>>


----------------------------------------------------------------------------
(* PriceChangeDetector.match_changes_to_resources, PriceMonitor and the
   /price-changes/check endpoint.  Prices are micro-dollars per hour, so a
   dollar amount of the code is that many MicroDollars. *)

MicroDollars == 1000000

\* r.get('cloud_provider', '').lower() == provider.lower() and
\* r.get('usage_metrics', {}).get('instance_type') == instance_type, with the
\* provider compared as written
matches_change_exact_case(r, change) ==
    /\ r.cloud_provider = change.provider
    /\ "instance_type" \in DOMAIN r.usage_metrics
    /\ r.usage_metrics["instance_type"] = StrVal(change.instance_type)

\* r.get('cloud_provider', '').lower() == provider.lower() and
\* r.get('usage_metrics', {}).get('instance_type') == instance_type
matches_change(r, change) ==
    /\ lower(r.cloud_provider) = lower(change.provider)
    /\ "instance_type" \in DOMAIN r.usage_metrics
    /\ r.usage_metrics["instance_type"] = StrVal(change.instance_type)

\* PriceChangeDetector.match_changes_to_resources (detected_at and the text
\* of the recommendation are not modelled)
match_changes_to_resources(price_changes, resources) ==
    LET emit(change) ==
            LET matching_resources == SelectSeq(resources, LAMBDA r : matches_change(r, change))
                total_monthly_cost == sum(costs(matching_resources))
                num_instances      == Len(matching_resources)
                total_savings      == change.savings_per_month * num_instances
            IN  IF matching_resources /= <<>>
                THEN << [type                        |-> "price_change_opportunity",
                         provider                    |-> change.provider,
                         instance_type               |-> change.instance_type,
                         affected_resources          |-> num_instances,
                         current_monthly_cost        |-> total_monthly_cost,
                         potential_savings_per_month |-> total_savings,
                         price_reduction_pct         |-> change.reduction_pct,
                         old_price_per_hour          |-> change.old_price_per_hour,
                         new_price_per_hour          |-> change.new_price_per_hour,
                         recommendation              |-> "Price reduced. Automatic savings for the instances.",
                         priority                    |-> IF total_savings > 500 * MicroDollars
                                                         THEN "high" ELSE "medium"] >>
                ELSE <<>>
    IN  flatten([i \in 1..Len(price_changes) |-> emit(price_changes[i])])

\* the else branch of PriceMonitor.check_all_providers: a change converted
\* without resources
change_as_opportunity(change) ==
    [type                |-> "price_change_opportunity",
     cloud_provider      |-> change.provider,
     instance_type       |-> change.instance_type,
     current_cost        |-> change.old_price_per_month,
     potential_savings   |-> change.savings_per_month,
     price_reduction_pct |-> change.reduction_pct,
     recommendation      |-> "Price reduced. Automatic savings.",
     priority            |-> IF change.savings_per_month > 200 * MicroDollars
                             THEN "high" ELSE "medium"]

\* PriceMonitor.check_all_providers after check_for_changes returned
\* price_changes (_check_discount_programs returns [])
check_all_providers(price_changes, resources) ==
    IF price_changes /= <<>>
    THEN IF resources /= <<>>
         THEN match_changes_to_resources(price_changes, resources)
         ELSE [i \in 1..Len(price_changes) |-> change_as_opportunity(price_changes[i])]
    ELSE <<>>

\* opp.get('potential_savings', 0)
get_potential_savings(opp) ==
    IF "potential_savings" \in DOMAIN opp THEN opp.potential_savings ELSE 0

\* check_price_changes: what the endpoint returns for the opportunities of
\* the monitor
check_price_changes(opportunities) ==
    LET significant_opportunities ==
            SelectSeq(opportunities, LAMBDA opp : get_potential_savings(opp) > 10 * MicroDollars)
    IN  [opportunities           |-> significant_opportunities,
         total_potential_savings |->
             sum([i \in 1..Len(significant_opportunities) |->
                     get_potential_savings(significant_opportunities[i])]),
         high_priority_count     |->
             Len(SelectSeq(significant_opportunities, LAMBDA opp : opp.priority = "high")),
         medium_priority_count   |->
             Len(SelectSeq(significant_opportunities, LAMBDA opp : opp.priority = "medium"))]


----------------------------------------------------------------------------
(* The price-change stream of the API server: check_for_changes, then
   match_changes_to_resources on the resources in use *)

MaxResources == 2     \* resources passed to the matching

S_GCP       == <<"G","C","P">>
S_M5_XLARGE == <<"M","5",".","X","L","A","R","G","E">>

\* the resources in use: the to_dict() of normalized records
ResourcePool ==
    { UnifiedCostRecord(<<"i","-","1">>, S_aws, S_compute, S_vm, S_us_east_1, 140,
                        [instance_type |-> StrVal(S_m5_xlarge)], NoTags),
      UnifiedCostRecord(<<"i","-","2">>, S_AWS, S_compute, S_vm, S_us_east_1, 150,
                        [instance_type |-> StrVal(S_m5_xlarge)], NoTags),
      UnifiedCostRecord(<<"i","-","3">>, S_aws, S_compute, S_vm, S_us_west_2, 60,
                        [instance_type |-> StrVal(S_t3_large)], NoTags),
      UnifiedCostRecord(<<"i","-","4">>, S_gcp, S_compute, S_vm, S_us_east_1, 140,
                        [instance_type |-> StrVal(S_m5_xlarge)], NoTags),
      UnifiedCostRecord(<<"i","-","5">>, S_aws, S_compute, S_vm, S_us_east_1, 140,
                        NoMetrics, NoTags),
      UnifiedCostRecord(<<"i","-","6">>, S_aws, S_compute, S_vm, S_us_east_1, 140,
                        [instance_type |-> StrVal(S_M5_XLARGE)], NoTags),
      UnifiedCostRecord(<<"i","-","7">>, S_GCP, S_compute, S_vm, S_us_east_1, 500,
                        [instance_type |-> StrVal(S_n1_standard_4)], NoTags) }

ResourceBatches == UNION { [1..n -> ResourcePool] : n \in 0..MaxResources }

\* a history file saved by an earlier check, when the prices were higher
HistoryWithPrices(aws, gcp) ==
    [state |-> "json",
     data  |-> [prices |-> [p \in {S_aws, S_gcp} |-> IF p = S_aws THEN aws ELSE gcp],
                last_updated |-> {S_aws, S_gcp},
                simulated_reductions |-> EmptyMap]]

\* the history the server finds: none; m5.xlarge 0.40 and t3.large 0.0068
\* above today's price and n1-standard-4 exactly 5% above it; m5.xlarge 0.10
\* and n1-standard-4 0.80 above today's price
MatchFilePool ==
    { [state |-> "absent"],
      HistoryWithPrices([t \in {S_m5_xlarge, S_t3_large} |-> IF t = S_m5_xlarge THEN 592000 ELSE 90000],
                        [t \in {S_n1_standard_4} |-> 200000]),
      HistoryWithPrices([t \in {S_m5_xlarge} |-> 292000],
                        [t \in {S_n1_standard_4} |-> 990000]) }

InitMatch ==
    /\ records \in ResourceBatches
    /\ analysis = [status |-> "none"]
    /\ sources = <<>>
    /\ call = [op |-> "none", pc |-> "idle"]
    /\ \E f \in MatchFilePool : ScraperStartedOn(f)

\* detector.check_for_changes() of the server: reload, scrape, detect, save
MatchCheckForChanges ==
    LET h == _load_price_history(price_file)
        current_prices == scrape_all_providers(h)
        r == detect_price_changes(h, current_prices)
    IN  /\ scrapers' = [scrapers EXCEPT ![1].historical_prices = r.historical_prices]
        /\ price_file' = _save_price_history(price_file, r.historical_prices, "ok")
        /\ detect_log' = [called         |-> TRUE,
                          before         |-> h,
                          current_prices |-> current_prices,
                          changes        |-> r.changes,
                          repeated       |-> FALSE]
        /\ UNCHANGED <<observed, overwritten, analyzerVars, registryVars>>

\* detector.match_changes_to_resources(price_changes, resources) on the
\* changes the last check returned
MatchChangesToResources ==
    /\ detect_log.called
    /\ analysis' = [status        |-> "matched",
                    price_changes |-> detect_log.changes,
                    opportunities |-> match_changes_to_resources(detect_log.changes, records)]
    /\ UNCHANGED <<records, registryVars, scraperVars>>

\* POST /price-changes/check: price_monitor.check_all_providers(resources)
\* and the filtering of its opportunities
CheckPriceChanges ==
    LET h == _load_price_history(price_file)
        current_prices == scrape_all_providers(h)
        r == detect_price_changes(h, current_prices)
        opportunities == check_all_providers(r.changes, records)
    IN  /\ scrapers' = [scrapers EXCEPT ![1].historical_prices = r.historical_prices]
        /\ price_file' = _save_price_history(price_file, r.historical_prices, "ok")
        /\ detect_log' = [called         |-> TRUE,
                          before         |-> h,
                          current_prices |-> current_prices,
                          changes        |-> r.changes,
                          repeated       |-> FALSE]
        /\ analysis' = [status        |-> "checked",
                        price_changes |-> r.changes,
                        opportunities |-> opportunities,
                        response      |-> check_price_changes(opportunities)]
        /\ UNCHANGED <<records, observed, overwritten, registryVars>>

NextMatch == MatchCheckForChanges \/ MatchChangesToResources \/ CheckPriceChanges

SpecMatch == InitMatch /\ [][NextMatch]_vars

\* the records that use the change's instance type at the change's provider
users_of(change) ==
    { i \in 1..Len(records) :
        /\ lower(records[i].cloud_provider) = lower(change.provider)
        /\ "instance_type" \in DOMAIN records[i].usage_metrics
        /\ records[i].usage_metrics["instance_type"] = StrVal(change.instance_type) }

\* the opportunities emitted for a change
emitted_for(change) ==
    { k \in 1..Len(analysis.opportunities) :
        /\ analysis.opportunities[k].provider = change.provider
        /\ analysis.opportunities[k].instance_type = change.instance_type }

\* C21: match_changes_to_resources emits, for each price change, one
\* opportunity exactly when at least one record matches the change's
\* provider (case-insensitively) and instance-type metric; its total savings
\* is the change's savings_per_month times the number of matching records,
\* and its priority is high when that total exceeds 500 and medium otherwise.
C21_OneOpportunityPerMatchedChange ==
    analysis.status = "matched" =>
        /\ \A c \in 1..Len(analysis.price_changes) :
              LET change == analysis.price_changes[c]
                  n      == Cardinality(users_of(change))
              IN  /\ Cardinality(emitted_for(change)) = IF n > 0 THEN 1 ELSE 0
                  /\ \A k \in emitted_for(change) :
                        LET opp == analysis.opportunities[k]
                        IN  /\ opp.potential_savings_per_month = change.savings_per_month * n
                            /\ opp.priority = IF change.savings_per_month * n > 500 * MicroDollars
                                              THEN "high" ELSE "medium"
        /\ \A k \in 1..Len(analysis.opportunities) :
              \E c \in 1..Len(analysis.price_changes) : k \in emitted_for(analysis.price_changes[c])

\* a change of 292/month matched by two records, one of them written 'AWS':
\* 584/month, high; and a change no record uses
C21_Witness ==
    /\ analysis.status = "matched"
    /\ \E c \in 1..Len(analysis.price_changes) :
          /\ Cardinality(users_of(analysis.price_changes[c])) = 2
          /\ \E i \in users_of(analysis.price_changes[c]) : records[i].cloud_provider = S_AWS
          /\ \E k \in emitted_for(analysis.price_changes[c]) :
                analysis.opportunities[k].priority = "high"
    /\ \E c \in 1..Len(analysis.price_changes) : users_of(analysis.price_changes[c]) = {}


\* the keys of an opportunity of analyze_costs
OpportunityKeys ==
    {"type", "resource_id", "cloud_provider", "current_cost", "potential_savings",
     "recommendation", "priority"}

\* C22: the opportunities of the price-change stream (the changes matched to
\* the resources in use) have the shape of those of analyze_costs: each
\* carries type, resource_id, cloud_provider, current_cost,
\* potential_savings, recommendation and priority, and a consumer reading
\* potential_savings sees the matched savings.
C22_StreamsShareOneShape ==
    (analysis.status = "checked" /\ records /= <<>>) =>
        \A k \in 1..Len(analysis.opportunities) :
            LET opp == analysis.opportunities[k]
            IN  /\ OpportunityKeys \subseteq DOMAIN opp
                /\ \E c \in 1..Len(analysis.price_changes) :
                      LET change == analysis.price_changes[c]
                      IN  /\ k \in emitted_for(change)
                          /\ opp.potential_savings
                                 = change.savings_per_month * Cardinality(users_of(change))


----------------------------------------------------------------------------
(* The price-history store failing: a file that exists and cannot be read
   or parsed, a save that cannot open or cannot finish writing *)

\* a failed save leaving _save_price_history as an exception
save_raises_propagating(outcome) == outcome /= "ok"

\* _save_price_history: except Exception logs the error and returns
save_raises(outcome) == FALSE

\* PricingScraper.detect_price_changes with its final save
detect_price_changes_saving(h, f, current_prices, outcome) ==
    LET r == detect_price_changes(h, current_prices)
    IN  [status            |-> IF save_raises(outcome) THEN "raised" ELSE "returned",
         changes           |-> r.changes,
         historical_prices |-> r.historical_prices,
         file              |-> _save_price_history(f, r.historical_prices, outcome)]

\* PriceChangeDetector.check_for_changes on the file f
check_for_changes(f, outcome) ==
    LET h == _load_price_history(f)
        current_prices == scrape_all_providers(h)
    IN  [loaded |-> h, current_prices |-> current_prices]
        @@ detect_price_changes_saving(h, f, current_prices, outcome)

\* the current_prices handed to detect_price_changes: today's scrape of all
\* providers, aws alone with m5.xlarge cheaper still, aws having failed
PersistPricesPool ==
    { scrape_all_providers(EmptyHistory),
      << [provider |-> S_aws, prices |-> << [instance_type |-> S_m5_xlarge, price |-> 150000] >>] >>,
      << [provider |-> S_aws, prices |-> <<>>],
         [provider |-> S_gcp, prices |-> scrape_gcp_pricing] >> }

\* the prices a history records, by pair
recorded_prices(h) ==
    [pair \in UNION { { <<p, t>> : t \in DOMAIN h.prices[p] } : p \in DOMAIN h.prices } |->
        h.prices[pair[1]][pair[2]]]

\* the last price seen for every pair, after a scrape
observed_with(current_prices) ==
    LET obs == observations(current_prices)
    IN  [k \in (DOMAIN observed) \cup {o[1] : o \in obs} |->
            IF \E o \in obs : o[1] = k THEN (CHOOSE o \in obs : o[1] = k)[2] ELSE observed[k]]

\* the pairs some scrape so far found more than 5% below the price seen
\* before it
steep_so_far == IF "steep" \in DOMAIN detect_log THEN detect_log.steep ELSE {}

steep_with(current_prices) ==
    steep_so_far \cup { o[1] : o \in { o \in observations(current_prices) :
                                         /\ o[1] \in DOMAIN observed
                                         /\ o[2] * 100 < 95 * observed[o[1]] } }

\* the pairs with the price at which a change was returned for them, the
\* price not having changed since
reported_so_far == IF "reported" \in DOMAIN detect_log THEN detect_log.reported ELSE {}

reported_with(current_prices, changes) ==
    LET obs == observations(current_prices)
    IN  { x \in reported_so_far : \A o \in obs : o[1] = x[1] => o[2] = x[2] }
        \cup { o \in obs : \E i \in 1..Len(changes) : is_change_for(changes[i], o[1][1], o[1][2]) }

\* what the call leaves for the properties to look at
persist_log(via, outcome, r, before, current_prices) ==
    [called          |-> TRUE,
     via             |-> via,
     store           |-> price_file.state,
     save            |-> outcome,
     status          |-> r.status,
     before          |-> before,
     current_prices  |-> current_prices,
     changes         |-> r.changes,
     repeated        |-> FALSE,
     steep           |-> steep_with(current_prices),
     reported_before |-> reported_so_far,
     reported        |-> reported_with(current_prices, r.changes)]

InitPersist ==
    /\ records = <<>>
    /\ analysis = [status |-> "none"]
    /\ sources = <<>>
    /\ call = [op |-> "none", pc |-> "idle"]
    /\ \E f \in MatchFilePool \cup {[state |-> "corrupt"]} :
          /\ price_file = f
          /\ scrapers = [p \in Procs |->
                            [historical_prices |-> _load_price_history(f),
                             pc |-> "idle", simulations |-> 0]]
          /\ observed = recorded_prices(_load_price_history(f))
    /\ detect_log = [called |-> FALSE]
    /\ overwritten = {}

\* scraper.detect_price_changes(current_prices) with a save that may fail
PersistDetect ==
    \E current_prices \in PersistPricesPool, outcome \in SaveOutcomes :
        LET before == scrapers[1].historical_prices
            r      == detect_price_changes_saving(before, price_file, current_prices, outcome)
        IN  /\ scrapers' = [scrapers EXCEPT ![1].historical_prices = r.historical_prices]
            /\ price_file' = r.file
            /\ detect_log' = persist_log("detect_price_changes", outcome, r, before, current_prices)
            /\ observed' = observed_with(current_prices)
            /\ UNCHANGED <<overwritten, analyzerVars, registryVars>>

\* detector.check_for_changes() with a store that may be unreadable and a
\* save that may fail
PersistCheck ==
    \E outcome \in SaveOutcomes :
        LET r == check_for_changes(price_file, outcome)
        IN  /\ scrapers' = [scrapers EXCEPT ![1].historical_prices = r.historical_prices]
            /\ price_file' = r.file
            /\ detect_log' = persist_log("check_for_changes", outcome, r,
                                         scrapers[1].historical_prices, r.current_prices)
            /\ observed' = observed_with(r.current_prices)
            /\ UNCHANGED <<overwritten, analyzerVars, registryVars>>

NextPersist == PersistDetect \/ PersistCheck

SpecPersist == InitPersist /\ [][NextPersist]_vars

\* the pairs for which the history holds a price more than 5% above the one
\* in current_prices
reduced_pairs(h, current_prices) ==
    { o[1] : o \in { o \in observations(current_prices) :
                        LET old == historical_price_of(h, o[1][1], o[1][2])
                        IN  /\ old.found
                            /\ old.price > 0
                            /\ (old.price - o[2]) * 100 > 5 * old.price } }

C23_SaveFailedWithChanges ==
    /\ detect_log.called
    /\ detect_log.via = "detect_price_changes"
    /\ detect_log.save = "dump_failed"
    /\ detect_log.changes /= <<>>


----------------------------------------------------------------------------
(* CostAnalyzer: each heuristic called on its own on a batch of records *)

MaxBatch == 3       \* records of the batch a heuristic is called on

S_eu_west_1 == <<"e","u","-","w","e","s","t","-","1">>

\* the records of a batch: the vm and storage records of the scenarios of
\* the documentation, and records at and around each floor
HeuristicPool ==
    { UnifiedCostRecord(<<"i","-","1">>, S_aws, S_compute, S_vm, S_us_east_1, 120,
                        [instance_type |-> StrVal(S_m5_2xlarge)], NoTags),
      UnifiedCostRecord(<<"i","-","2">>, S_aws, S_compute, S_vm, S_us_west_2, 400,
                        [instance_type |-> StrVal(S_m5_xlarge)], NoTags),
      UnifiedCostRecord(<<"v","m","-","c","p","u">>, S_AWS, S_compute, S_vm, S_us_east_1, 600,
                        [instance_type |-> StrVal(S_t3_large), note |-> StrVal(S_note)], NoTags),
      UnifiedCostRecord(<<"v","m","-","d","4">>, S_azure, S_compute, S_vm, S_us_west_2, 500,
                        [instance_type |-> StrVal(S_Standard_D4s_v3)], [env |-> <<"p","r","o","d">>]),
      UnifiedCostRecord(<<"g","-","1">>, S_gcp, S_compute, S_vm, S_eu_west_1, 300,
                        [instance_type |-> StrVal(S_n1_standard_4)], NoTags),
      UnifiedCostRecord(<<>>, S_aws, S_compute, S_vm, S_us_east_1, 60,
                        [instance_type |-> StrVal(S_M5_XLARGE)], NoTags),
      UnifiedCostRecord(<<"i","-","3">>, S_aws, S_compute, S_vm, S_us_east_1, 50,
                        [instance_type |-> StrVal(S_m5_xlarge)], NoTags),
      UnifiedCostRecord(<<"i","-","4">>, S_aws, S_compute, S_vm, S_us_west_2, 90,
                        [instance_type |-> StrVal(S_t3_medium)], NoTags),
      UnifiedCostRecord(<<"v","o","l","-","1">>, S_aws, S_storage, S_storage, S_us_east_1, 50,
                        NoMetrics, NoTags),
      UnifiedCostRecord(<<"v","o","l","-","A","t","t","a","c","h","e","d">>, S_gcp, S_storage, S_storage,
                        S_us_west_2, 40, NoMetrics, NoTags),
      UnifiedCostRecord(<<"v","o","l","-","2">>, S_aws, S_storage, S_storage, S_us_west_2, 60,
                        NoMetrics, [env |-> <<"p","r","o","d">>]),
      UnifiedCostRecord(<<"v","o","l","-","3">>, S_aws, S_storage, S_storage, S_eu_west_1, 5,
                        NoMetrics, NoTags),
      UnifiedCostRecord(<<"d","b","-","1">>, S_gcp, S_database, S_database, S_us_east_1, 0,
                        NoMetrics, NoTags),
      UnifiedCostRecord(<<"i","-","n">>, S_aws, S_compute, S_vm, S_us_east_1, 60,
                        [instance_type |-> IntVal(4)], NoTags) }

HeuristicBatches == UNION { [1..n -> HeuristicPool] : n \in 0..MaxBatch }

\* what a call of a heuristic leaves: the list it returns
Found(heuristic, opportunities) ==
    [status |-> "found", heuristic |-> heuristic, opportunities |-> opportunities]

InitHeuristics ==
    /\ records \in HeuristicBatches
    /\ analysis = [status |-> "none"]
    /\ sources = <<>>
    /\ call = [op |-> "none", pc |-> "idle"]
    /\ ScraperAtStart

\* analyzer._find_idle_resources(records)
FindIdleResources ==
    /\ analysis.status = "none"
    /\ analysis' = Found("idle_resource", _find_idle_resources(records))
    /\ UNCHANGED <<records, registryVars, scraperVars>>

\* analyzer._find_over_provisioned(records): the list, or the AttributeError
\* of instance_type.lower()
FindOverProvisioned ==
    /\ analysis.status = "none"
    /\ analysis' = IF over_provisioned_raises(records)
                   THEN [status |-> "raised", heuristic |-> "over_provisioned"]
                   ELSE Found("over_provisioned", _find_over_provisioned(records))
    /\ UNCHANGED <<records, registryVars, scraperVars>>

\* analyzer._find_unattached_storage(records)
FindUnattachedStorage ==
    /\ analysis.status = "none"
    /\ analysis' = Found("unattached_storage", _find_unattached_storage(records))
    /\ UNCHANGED <<records, registryVars, scraperVars>>

\* analyzer._find_region_optimizations(records)
FindRegionOptimizations ==
    /\ analysis.status = "none"
    /\ analysis' = Found("region_optimization", _find_region_optimizations(records))
    /\ UNCHANGED <<records, registryVars, scraperVars>>

\* analyzer._find_price_change_opportunities(records)
FindPriceChangeOpportunities ==
    /\ analysis.status = "none"
    /\ analysis' = Found("price_change_opportunity", _find_price_change_opportunities(records))
    /\ UNCHANGED <<records, registryVars, scraperVars>>

NextHeuristics ==
    \/ FindIdleResources
    \/ FindOverProvisioned
    \/ FindUnattachedStorage
    \/ FindRegionOptimizations
    \/ FindPriceChangeOpportunities

SpecHeuristics == InitHeuristics /\ [][NextHeuristics]_vars


----------------------------------------------------------------------------
(* CostAnalyzer: the heuristics, one by one *)

\* the heuristic was called on the batch
called(heuristic) == analysis.status /= "none" /\ analysis.heuristic = heuristic

\* the records (by position) and the opportunities (by position) correspond
\* one to one: as many opportunities as flagged records, every flagged record
\* with an opportunity that fits it, every opportunity fitting a flagged record
one_each(flagged, fits(_, _)) ==
    /\ Len(analysis.opportunities) = Cardinality(flagged)
    /\ \A i \in flagged : \E k \in 1..Len(analysis.opportunities) : fits(analysis.opportunities[k], records[i])
    /\ \A k \in 1..Len(analysis.opportunities) : \E i \in flagged : fits(analysis.opportunities[k], records[i])

\* the instance_type metric names an xlarge size (xlarge, 2xlarge, 4xlarge,
\* 8xlarge), in any case
names_large_size(r) ==
    /\ "instance_type" \in DOMAIN r.usage_metrics
    /\ r.usage_metrics["instance_type"].t = "str"
    /\ \E a \in 1..Len(r.usage_metrics["instance_type"].v) :
          /\ a + 5 <= Len(r.usage_metrics["instance_type"].v)
          /\ lower(SubSeq(r.usage_metrics["instance_type"].v, a, a + 5)) = S_xlarge

\* C24: the over-provisioned heuristic emits one opportunity for every vm
\* record whose cost_usd exceeds 50 and whose instance_type metric contains a
\* large size marker, and for no other record; each has potential_savings
\* 30% of the record's cost and priority medium.
C24_OverProvisionedPerLargeVm ==
    called("over_provisioned") =>
        /\ analysis.status = "found"
        /\ one_each({ i \in 1..Len(records) :
                        /\ records[i].resource_type = S_vm
                        /\ records[i].cost_usd > 50
                        /\ names_large_size(records[i]) },
                    LAMBDA opp, r : /\ opp.type = "over_provisioned"
                                    /\ opp.resource_id = r.resource_id
                                    /\ opp.potential_savings = r.cost_usd * 30
                                    /\ opp.priority = "medium")


\* the records of the batch that carry the resource id
group_of(resource_id) == SelectSeq(records, LAMBDA r : r.resource_id = resource_id)

\* some record of the group carries a usage-metric value mentioning 'cpu' or
\* 'utilization'
mentions_usage(rs) ==
    \E i \in 1..Len(rs) :
        \E k \in DOMAIN rs[i].usage_metrics :
            LET text == lower(str_of(rs[i].usage_metrics[k]))
            IN  \E a \in 1..Len(text), b \in 1..Len(text) :
                    SubSeq(text, a, b) \in {S_cpu, S_utilization}

\* the first record of every group that is to be flagged as idle
idle_groups ==
    { i \in 1..Len(records) :
        /\ \A j \in 1..(i - 1) : records[j].resource_id /= records[i].resource_id
        /\ sum(costs(group_of(records[i].resource_id))) > 10
        /\ ~mentions_usage(group_of(records[i].resource_id)) }

fits_idle_group(opp, r) ==
    LET total_cost == sum(costs(group_of(r.resource_id)))
    IN  /\ opp.type = "idle_resource"
        /\ opp.resource_id = r.resource_id
        /\ opp.current_cost = total_cost
        /\ opp.potential_savings = total_cost * 90
        /\ opp.priority = IF total_cost > 100 THEN "high" ELSE "medium"

\* C25 as stated: the idle-resource heuristic groups all records by
\* resource_id and emits exactly one opportunity per group whose aggregate
\* cost exceeds 10 and in which no record carries a usage-metric value
\* mentioning 'cpu' or 'utilization'; the savings are 90% of the aggregate
\* cost, the priority is high above 100 and medium otherwise.
C25_IdlePerGroupOfAllRecords ==
    called("idle_resource") => one_each(idle_groups, fits_idle_group)

\* C25 amended: the same for the records that have a resource id; records
\* with an empty resource_id are left out of the grouping and never flagged.
C25_IdlePerGroupOfIdentifiedRecords ==
    called("idle_resource") =>
        one_each({ i \in idle_groups : records[i].resource_id /= <<>> }, fits_idle_group)

\* one resource flagged, next to a resource whose record mentions CPU
\* utilization and a record without a resource id
C25_Witness ==
    /\ called("idle_resource")
    /\ Len(records) = 3
    /\ Len(analysis.opportunities) = 1
    /\ \E i \in 1..Len(records) : mentions_usage(<<records[i]>>)
    /\ \E i \in 1..Len(records) : records[i].resource_id = <<>>


\* the static reduction table: provider, instance type, reduction in percent
ReductionTable ==
    { <<S_aws, S_m5_xlarge, 15>>, <<S_aws, S_t3_large, 10>>,
      <<S_gcp, S_n1_standard_4, 20>>, <<S_azure, S_Standard_D4s_v3, 12>> }

\* C26: for every entry of the static reduction table (aws:m5.xlarge 15%,
\* aws:t3.large 10%, gcp:n1-standard-4 20%, azure:Standard_D4s_v3 12%), the
\* vm records of that provider and instance type, when their aggregate cost
\* times the percentage exceeds 50, yield one price-change opportunity with
\* that percentage of the aggregate cost as potential_savings.
C26_EveryTableEntryIsFound ==
    called("price_change_opportunity") =>
        \A e \in ReductionTable :
            LET members == SelectSeq(records, LAMBDA r :
                               /\ r.resource_type = S_vm
                               /\ r.cloud_provider = e[1]
                               /\ "instance_type" \in DOMAIN r.usage_metrics
                               /\ r.usage_metrics["instance_type"] = StrVal(e[2]))
                total_cost == sum(costs(members))
                emitted == { k \in 1..Len(analysis.opportunities) :
                               /\ analysis.opportunities[k].type = "price_change_opportunity"
                               /\ analysis.opportunities[k].resource_id = e[1] \o COLON \o e[2] }
            IN  total_cost * e[3] > 50 * 100 =>
                    /\ Cardinality(emitted) = 1
                    /\ \A k \in emitted :
                          analysis.opportunities[k].potential_savings = total_cost * e[3]


\* the text holds 'attached', in any case
names_attached(text) ==
    \E a \in 1..Len(text) :
        a + 7 <= Len(text) /\ lower(SubSeq(text, a, a + 7)) = S_attached

\* C27: the unattached-storage heuristic emits one opportunity for every
\* storage record whose cost exceeds 5, whose tags are empty and whose
\* resource_id does not contain 'attached' (case-insensitively), and for no
\* other record; potential_savings is the record's full cost and priority is
\* medium.
C27_UnattachedStoragePerRecord ==
    called("unattached_storage") =>
        one_each({ i \in 1..Len(records) :
                     /\ records[i].resource_type = S_storage
                     /\ records[i].cost_usd > 5
                     /\ DOMAIN records[i].tags = {}
                     /\ ~names_attached(records[i].resource_id) },
                 LAMBDA opp, r : /\ opp.type = "unattached_storage"
                                 /\ opp.resource_id = r.resource_id
                                 /\ opp.current_cost = r.cost_usd
                                 /\ opp.potential_savings = r.cost_usd * 100
                                 /\ opp.priority = "medium")

\* the storage record of cost 50, without tags, 'vol-1', flagged with
\* savings 50, next to a volume named 'vol-Attached' and a tagged volume,
\* both left alone
C27_Witness ==
    /\ called("unattached_storage")
    /\ Len(records) = 3
    /\ \A i \in 1..Len(records) : records[i].resource_type = S_storage /\ records[i].cost_usd > 5
    /\ \E i \in 1..Len(records) : names_attached(records[i].resource_id)
    /\ \E i \in 1..Len(records) : DOMAIN records[i].tags /= {}
    /\ Len(analysis.opportunities) = 1
    /\ analysis.opportunities[1].resource_id = <<"v","o","l","-","1">>
    /\ analysis.opportunities[1].potential_savings = 50 * 100


\* the (service_category, resource_type) pairs of the batch
service_groups == { <<records[i].service_category, records[i].resource_type>> : i \in 1..Len(records) }

\* the regions of a pair, and the aggregate cost of the pair in a region
regions_of(g) ==
    { records[i].region : i \in { i \in 1..Len(records) :
                                    <<records[i].service_category, records[i].resource_type>> = g } }

region_cost(g, region) ==
    sum(costs(SelectSeq(records, LAMBDA r :
                  <<r.service_category, r.resource_type>> = g /\ r.region = region)))

dearest_cost(g) ==
    CHOOSE c \in { region_cost(g, x) : x \in regions_of(g) } :
        \A x \in regions_of(g) : region_cost(g, x) <= c

cheapest_cost(g) ==
    CHOOSE c \in { region_cost(g, x) : x \in regions_of(g) } :
        \A x \in regions_of(g) : region_cost(g, x) >= c

C28_BoundaryReached ==
    /\ called("region_optimization")
    /\ \E g \in service_groups :
          /\ Cardinality(regions_of(g)) = 2
          /\ dearest_cost(g) * 10 = cheapest_cost(g) * 12
    /\ analysis.opportunities = <<>>


----------------------------------------------------------------------------
(* Data sources: the size of a result *)

\* C29: for every query that validate_query accepts, the number of rows
\* query returns is at most the requested limit (100 when absent) and so
\* never more than 10,000, also for a limit of zero or below and, for the
\* REST source, for a response that is a single JSON object.
C29_RowsNeverExceedLimit ==
    (call.op = "query" /\ call.outcome.kind = "return") =>
        /\ Len(call.outcome.rows) <= dict_get(call.query_params, "limit", DefaultLimit)
        /\ Len(call.outcome.rows) <= MaxLimit


----------------------------------------------------------------------------
(* The baseline over a sequence of calls *)

\* a change is returned for the pair by the last call
returned_for(pair) ==
    \E i \in 1..Len(detect_log.changes) : is_change_for(detect_log.changes[i], pair[1], pair[2])

\* C30: a sequence of scrapes in which each price is at most 5% below the
\* price of the scrape before it never yields a PriceChange for that
\* instance type, however large the reduction from the first recorded price;
\* and a reduction that was returned once is not returned again by later
\* calls while the price stays the same.
C30_BaselineFollowsEveryScrape ==
    detect_log.called =>
        \A o \in observations(detect_log.current_prices) :
            /\ o[1] \notin detect_log.steep => ~returned_for(o[1])
            /\ o \in detect_log.reported_before => ~returned_for(o[1])

====
